---- MODULE Spec2Model ----
(***************************************************************************)
(* The Wi-Fi Aware multi-device test (wifi_aware_manager_test.py) and its  *)
(* constants (constants.py) as a state machine.                            *)
(*                                                                         *)
(* The host runs test_create_wifi_aware_network as one sequential thread.  *)
(* It issues remote operations on two devices (logged in ops) and blocks   *)
(* in handler.waitAndGet(event_name, timeout) (logged in waits).  The two  *)
(* devices are the environment: they answer an issued operation by         *)
(* emitting callback events (emitted), in any interleaving with the host.  *)
(* waitAndGet returns the oldest not yet consumed event of the handler     *)
(* with the asked name, and raises a timeout when there is none.           *)
(*                                                                         *)
(* Byte strings are sequences of integers, Python str values are sequences *)
(* of code points, Optional values are sequences of length at most one.    *)
(* The long byte strings and messages of the source are shortened to one   *)
(* or two bytes; distinct source values stay distinct.                     *)
(***************************************************************************)
EXTENDS Integers, Sequences, FiniteSets, TLC

\* ------------------------------------------------------------ constants

publisher == "publisher"
subscriber == "subscriber"
Devices == {publisher, subscriber}
Other(d) == IF d = publisher THEN subscriber ELSE publisher

\* AttachCallBackMethodType
ATTACHED == "onAttached"
ATTACH_FAILED == "onAttachFailed"

\* DiscoverySessionCallbackMethodType
PUBLISH_STARTED == "onPublishStarted"
SUBSCRIBE_STARTED == "onSubscribeStarted"
SESSION_CONFIG_FAILED == "onSessionConfigFailed"
SERVICE_DISCOVERED == "onServiceDiscovered"
SERVICE_DISCOVERED_WITHIN_RANGE == "onServiceDiscoveredWithinRange"
MESSAGE_SEND_SUCCEEDED == "onMessageSendSucceeded"
MESSAGE_SEND_FAILED == "onMessageSendFailed"
MESSAGE_RECEIVED == "onMessageReceived"
DISCOVER_RESULT == "discoveryResult"
MESSAGE_SEND_RESULT == "messageSendResult"

\* NetworkCbEventName, NetworkCbName, and one callback name the test does
\* not know (WifiAwareSnippetEventName.ON_AVAILABLE)
NETWORK_CALLBACK == "NetworkCallback"
ON_UNAVAILABLE == "onUnavailable"
ON_CAPABILITIES_CHANGED == "onCapabilitiesChanged"
ON_AVAILABLE == "onAvailable"
AWARE_NETWORK_INFO_CLASS_NAME == "android.net.wifi.aware.WifiAwareNetworkInfo"
OTHER_INFO_CLASS_NAME == "android.net.wifi.WifiInfo"

\* The members of the enum WifiAwareSnippetParams as the module ends up
\* defining it: the second class statement (constants.py:119) replaces the
\* first (constants.py:46).
WifiAwareSnippetParams ==
    {"SERVICE_SPECIFIC_INFO", "RECEIVED_MESSAGE", "PEER_HANDLE", "MATCH_FILTER",
     "MATCH_FILTER_VALUE", "PAIRED_ALIAS", "PAIRING_CONFIG", "DISTANCE_MM",
     "LAST_MESSAGE_ID", "PAIRING_REQUEST_ID", "BOOTSTRAPPING_METHOD"}

\* WifiAwareTestConstants, shortened: "P", "S", "M" and the service name.
SERVICE_NAME == "CtsVerifierTestService"
PUB_SSI == <<80>>
SUB_SSI == <<83>>
MATCH_FILTER_BYTES == <<77>>
\* A match filter that is not the constant ("F").
OTHER_FILTER_BYTES == <<70>>

\* PublishType.UNSOLICITED, SubscribeType.PASSIVE,
\* NetworkCapabilities.Transport.TRANSPORT_WIFI_AWARE
UNSOLICITED == 0
PASSIVE == 0
TRANSPORT_WIFI_AWARE == 5
REQUEST_NETWORK_TIMEOUT_MS == 15000
\* constants.WAIT_WIFI_STATE_TIME_OUT, a timedelta, in seconds, and
\* _DEFAULT_TIMEOUT, its total_seconds().
WAIT_WIFI_STATE_TIME_OUT == 30
DEFAULT_TIMEOUT == WAIT_WIFI_STATE_TIME_OUT
\* BootstrappingMethod.OPPORTUNISTIC
OPPORTUNISTIC == 1
\* A max_distance_mm a caller may configure.
ONE_METRE_MM == 1000

\* _MSG_SUB_TO_PUB and _MSG_PUB_TO_SUB, shortened to "L" and "R"; the ends
\* of the two ranges random.randint draws the message identifiers from.
MSG_SUB_TO_PUB == <<76>>
MSG_PUB_TO_SUB == <<82>>
SubToPubIds == {1000, 5000}
\* Weakened variant: the second range starts where the first ends.
PubToSubIds_Overlap == {5000, 9999}
PubToSubIds == {5001, 9999}

\* ------------------------------------------------------------ bounds

\* Service-discovered events the subscriber may emit in one run.
MaxDiscoveryEvents == 1
\* NetworkCallback events a device may emit for one network request.
MaxNetworkEvents == 1

\* The peer handles a device may report.
PeerHandles == {1, 2}

\* ------------------------------------------------------------ conversions

\* Python's bytes(list of int): ValueError unless every item is in 0..255.
BytesOk(l) == \A i \in 1..Len(l) : l[i] \in 0..255

\* bytes.decode("utf-8") on the byte alphabet of the model (one- and
\* two-byte sequences): Utf8Valid is "does not raise UnicodeDecodeError",
\* Utf8Decode the str, as its code points.
RECURSIVE Utf8Valid(_)
Utf8Valid(b) ==
    IF b = <<>> THEN TRUE
    ELSE IF b[1] \in 0..127 THEN Utf8Valid(Tail(b))
    ELSE IF b[1] \in 194..223 /\ Len(b) >= 2 /\ b[2] \in 128..191
         THEN Utf8Valid(Tail(Tail(b)))
    ELSE FALSE

RECURSIVE Utf8Decode(_)
Utf8Decode(b) ==
    IF b = <<>> THEN <<>>
    ELSE IF b[1] \in 0..127 THEN <<b[1]>> \o Utf8Decode(Tail(b))
    ELSE <<(b[1] - 192) * 64 + (b[2] - 128)>> \o Utf8Decode(Tail(Tail(b)))

\* Optional values.
None == <<>>
Some(v) == <<v>>

\* ------------------------------------------------------------ state

VARIABLES
    pc,       \* the host's position in the test method or helper
    cfg,      \* the publish configuration the helpers are given
    ids,      \* _MSG_ID_SUB_TO_PUB and _MSG_ID_PUB_TO_SUB
    call,     \* the arguments of the helper call in progress
    locals,   \* the local variables of test_create_wifi_aware_network
    phase,    \* each device's state in the session state machine
    ops,      \* the remote operations issued so far, in order
    waits,    \* the waitAndGet calls made so far, in order, with their results
    emitted,  \* per device, the events it emitted so far, in order
    consumed, \* per device, the indices of emitted events a wait returned
    result,   \* "running", "passed" or "failed"
    error,    \* the exception that ended the test method, "" when none
    ret       \* what a helper called on its own returned, None before

vars == <<pc, cfg, ids, call, locals, phase, ops, waits, emitted, consumed,
          result, error, ret>>

\* ------------------------------------------------------------ configs

\* constants.PublishConfig as _start_publish builds it (pairing_config is
\* left at its default, None).
PublishConfig(service_specific_info, match_filter, publish_type, ranging) ==
    [service_name |-> SERVICE_NAME,
     service_specific_info |-> service_specific_info,
     match_filter |-> match_filter,
     publish_type |-> publish_type,
     terminate_notification_enabled |-> TRUE,
     ranging_enabled |-> ranging,
     pairing_config |-> None]

\* constants.SubscribeConfig as _start_subscribe builds it.
SubscribeConfig(service_specific_info, match_filter, subscribe_type, max_distance_mm) ==
    [service_name |-> SERVICE_NAME,
     service_specific_info |-> service_specific_info,
     match_filter |-> match_filter,
     subscribe_type |-> subscribe_type,
     terminate_notification_enabled |-> TRUE,
     max_distance_mm |-> max_distance_mm,
     pairing_config |-> None]

\* AwarePairingConfig.to_dict: the dataclass fields, the enum by its value.
AwarePairingConfig_to_dict(p) ==
    [pairing_cache_enabled |-> p.pairing_cache_enabled,
     pairing_setup_enabled |-> p.pairing_setup_enabled,
     pairing_verification_enabled |-> p.pairing_verification_enabled,
     bootstrapping_methods |-> p.bootstrapping_methods]

\* [mf.decode("utf-8") for mf in match_filter]
DecodeAll(l) == [i \in 1..Len(l) |-> Utf8Decode(l[i])]

\* to_dict raises UnicodeDecodeError when a byte string is not UTF-8.
ConfigDecodes(c) ==
    /\ Utf8Valid(c.service_specific_info)
    /\ c.match_filter # None =>
           \A i \in 1..Len(c.match_filter[1]) : Utf8Valid(c.match_filter[1][i])

\* Weakened variant: the match filter is converted when present and its
\* key is kept when absent.
OptionalKeys_KeepsMatchFilter(c) ==
    [match_filter |-> IF c.match_filter = None THEN <<>>
                      ELSE DecodeAll(c.match_filter[1])]
    @@ (IF c.pairing_config = None THEN <<>>
        ELSE [pairing_config |-> AwarePairingConfig_to_dict(c.pairing_config[1])])

\* The optional keys of both to_dict methods: present only when not None.
OptionalKeys(c) ==
    (IF c.match_filter = None THEN <<>>
     ELSE [match_filter |-> DecodeAll(c.match_filter[1])])
    @@ (IF c.pairing_config = None THEN <<>>
        ELSE [pairing_config |-> AwarePairingConfig_to_dict(c.pairing_config[1])])

\* PublishConfig.to_dict
PublishConfig_to_dict(c) ==
    [service_name |-> c.service_name,
     service_specific_info |-> Utf8Decode(c.service_specific_info),
     publish_type |-> c.publish_type,
     terminate_notification_enabled |-> c.terminate_notification_enabled,
     ranging_enabled |-> c.ranging_enabled]
    @@ OptionalKeys(c)

\* Weakened variant: the subscribe mapping also carries the ranging flag
\* of a publish session.
SubscribeConfig_to_dict_WithRanging(c) ==
    [service_name |-> c.service_name,
     service_specific_info |-> Utf8Decode(c.service_specific_info),
     subscribe_type |-> c.subscribe_type,
     terminate_notification_enabled |-> c.terminate_notification_enabled,
     ranging_enabled |-> FALSE]
    @@ OptionalKeys(c)
    @@ (IF c.max_distance_mm = None THEN <<>>
        ELSE [max_distance_mm |-> c.max_distance_mm[1]])

\* SubscribeConfig.to_dict
SubscribeConfig_to_dict(c) ==
    [service_name |-> c.service_name,
     service_specific_info |-> Utf8Decode(c.service_specific_info),
     subscribe_type |-> c.subscribe_type,
     terminate_notification_enabled |-> c.terminate_notification_enabled]
    @@ OptionalKeys(c)
    @@ (IF c.max_distance_mm = None THEN <<>>
        ELSE [max_distance_mm |-> c.max_distance_mm[1]])

\* ------------------------------------------------------------ events, logs

\* A handler (its callback_id): one per asynchronous operation of a device.
Handle(d, kind) == <<d, kind>>

Event(h, name, data) == [h |-> h, name |-> name, data |-> data]
NoEvent == Event(<<"none", "none">>, "none", [none |-> TRUE])

Op(d, op, args) == [dev |-> d, op |-> op, args |-> args]
Issued(d, op) == \E i \in 1..Len(ops) : ops[i].dev = d /\ ops[i].op = op
CountOps(d, op) == Cardinality({i \in 1..Len(ops) : ops[i].dev = d /\ ops[i].op = op})
CountEmitted(d, names) ==
    Cardinality({i \in 1..Len(emitted[d]) : emitted[d][i].name \in names})

\* Weakened variant: the waits are serialized over the devices, a handler
\* delivers nothing while an event of the other device is still queued.
Matching_Serialized(d, h, name) ==
    {i \in 1..Len(emitted[d]) :
        /\ i \notin consumed[d]
        /\ emitted[d][i].h = h
        /\ emitted[d][i].name = name
        /\ \A j \in 1..Len(emitted[Other(d)]) : j \in consumed[Other(d)]}

\* handler.waitAndGet(event_name, timeout): the oldest event of the handler
\* with that name that no earlier wait returned.
Matching(d, h, name) ==
    {i \in 1..Len(emitted[d]) :
        /\ i \notin consumed[d]
        /\ emitted[d][i].h = h
        /\ emitted[d][i].name = name}
Oldest(S) == CHOOSE i \in S : \A j \in S : i <= j
Arrived(d, h, name) == emitted[d][Oldest(Matching(d, h, name))]

\* The events the device d emitted that no wait has returned yet: they sit
\* in the queues of d's handlers.
Pending(d) == Cardinality({i \in 1..Len(emitted[d]) : i \notin consumed[d]})

\* The record of one waitAndGet call; pending is the number of events that
\* were queued on the other device's handlers when the call ended.
WaitRec(d, h, name, timeout, ok, ev) ==
    [dev |-> d, h |-> h, name |-> name, timeout |-> timeout, ok |-> ok, ev |-> ev,
     pending |-> Pending(Other(d))]

\* Weakened variant: the event returned stays in the handler's queue.
Returns_Stale(d, h, name, timeout) ==
    /\ Matching(d, h, name) # {}
    /\ consumed' = consumed
    /\ waits' = Append(waits, WaitRec(d, h, name, timeout, TRUE, Arrived(d, h, name)))

\* waitAndGet returns the event.
Returns(d, h, name, timeout) ==
    /\ Matching(d, h, name) # {}
    /\ consumed' = [consumed EXCEPT ![d] = @ \cup {Oldest(Matching(d, h, name))}]
    /\ waits' = Append(waits, WaitRec(d, h, name, timeout, TRUE, Arrived(d, h, name)))

\* waitAndGet raises: no such event arrived within the timeout.
TimesOut(d, h, name, timeout) ==
    /\ Matching(d, h, name) = {}
    /\ waits' = Append(waits, WaitRec(d, h, name, timeout, FALSE, NoEvent))
    /\ UNCHANGED consumed

\* A device emits an event.  Events emitted after the test method ended
\* are waited for by nobody and are left out.
Emit(d, ev) ==
    /\ pc \notin {"end", "done", "returned"}
    /\ emitted' = [emitted EXCEPT ![d] = Append(@, ev)]

\* Weakened variant: the exception is swallowed and the host stays where
\* it is.
Raise_Swallowed(err) == pc' = pc /\ result' = result /\ error' = error

\* An exception leaves the test method; Mobly records the result.
Raise(err) == pc' = "end" /\ result' = "failed" /\ error' = err

NoCall == [site |-> "none"]

\* ------------------------------------------------------------ initial states

\* What the devices may put on the wire in a service-discovered event: the
\* service specific info as a list of integers, the match filter as the
\* list of its entries' "value" lists.
WireSsi == {PUB_SSI, SUB_SSI, <<256>>}
WireFilters == {<<MATCH_FILTER_BYTES>>, <<OTHER_FILTER_BYTES>>,
                <<MATCH_FILTER_BYTES, OTHER_FILTER_BYTES>>}

\* The arguments test_create_wifi_aware_network gives _start_publish,
\* _start_subscribe and _wait_for_discovery.
TestConfig ==
    [ssi |-> PUB_SSI, mf |-> <<MATCH_FILTER_BYTES>>, ranging |-> FALSE]

\* The arguments the three helpers accept.
AnyConfig ==
    [ssi : {PUB_SSI, SUB_SSI}, mf : {<<MATCH_FILTER_BYTES>>, <<OTHER_FILTER_BYTES>>},
     ranging : BOOLEAN]

NoLocals ==
    [publisher_attach_session |-> None, subscriber_attach_session |-> None,
     publish_session |-> None, subscribe_session |-> None,
     subscriber_peer |-> None, publisher_peer |-> None,
     pub_network |-> None, sub_network |-> None]

\* The module-level random draws of the two message identifiers.
MsgIds == [sub_to_pub : SubToPubIds, pub_to_sub : PubToSubIds]

InitCommon ==
    /\ ids \in MsgIds
    /\ call = NoCall
    /\ locals = NoLocals
    /\ ops = <<>>
    /\ waits = <<>>
    /\ emitted = [d \in Devices |-> <<>>]
    /\ consumed = [d \in Devices |-> {}]
    /\ result = "running"
    /\ error = ""
    /\ ret = None

\* The test method is entered (setup_class has passed).
Init ==
    /\ InitCommon
    /\ pc = "attach_pub"
    /\ cfg = TestConfig
    /\ phase = [d \in Devices |-> "Idle"]

\* The same, for every configuration the helpers may be given.
InitAnyConfig ==
    /\ InitCommon
    /\ pc = "attach_pub"
    /\ cfg \in AnyConfig
    /\ phase = [d \in Devices |-> "Idle"]

\* ------------------------------------------------------------ attach

\* Weakened variant: either device's attach may start the test case.
AttachPc_Any(d) == "attach_pub"

AttachPc(d) == IF d = publisher THEN "attach_pub" ELSE "attach_sub"
WaitAttachPc(d) == IF d = publisher THEN "wait_attach_pub" ELSE "wait_attach_sub"
\* test_create_wifi_aware_network: the publisher's attach, then the
\* subscriber's, then _start_publish.
AfterAttach(d) == IF d = publisher THEN "attach_sub" ELSE "publish"

AttachSessionVar(d) ==
    IF d = publisher THEN "publisher_attach_session" ELSE "subscriber_attach_session"

\* Weakened variant: _start_attach waits for the wrong member of the enum.
AttachEventName_Failed == ATTACH_FAILED

\* The event name _start_attach waits for.
AttachEventName == ATTACHED

\* _start_attach up to its wait: ad.wifi_aware_snippet.wifiAwareAttach().
StartAttach(d) ==
    /\ pc = AttachPc(d)
    /\ ops' = Append(ops, Op(d, "wifiAwareAttach", <<>>))
    /\ phase' = [phase EXCEPT ![d] = "Attaching"]
    /\ pc' = WaitAttachPc(d)
    /\ UNCHANGED <<cfg, ids, call, locals, waits, emitted, consumed, result, error, ret>>

\* The device answers an attach with one AttachCallback: onAttached or
\* onAttachFailed.
DeviceAttachCallback(d) ==
    /\ Issued(d, "wifiAwareAttach")
    /\ CountEmitted(d, {ATTACHED, ATTACH_FAILED}) = 0
    /\ \E name \in {ATTACHED, ATTACH_FAILED} :
           Emit(d, Event(Handle(d, "attach"), name, [callbackName |-> name]))
    /\ UNCHANGED <<pc, cfg, ids, call, locals, phase, ops, waits, consumed, result, error, ret>>

\* _start_attach from its wait on: the attached event or a timeout, then
\* the assertion on wifiAwareIsSessionAttached().
WaitAttached(d) ==
    /\ pc = WaitAttachPc(d)
    /\ \/ /\ TimesOut(d, Handle(d, "attach"), AttachEventName, DEFAULT_TIMEOUT)
          /\ phase' = [phase EXCEPT ![d] = "Failed"]
          /\ Raise("TimeoutError")
          /\ UNCHANGED <<ops, locals>>
       \/ /\ Returns(d, Handle(d, "attach"), AttachEventName, DEFAULT_TIMEOUT)
          /\ ops' = Append(ops, Op(d, "wifiAwareIsSessionAttached", <<>>))
          /\ \E attached \in BOOLEAN :
                IF attached
                THEN /\ phase' = [phase EXCEPT ![d] = "Attached"]
                     /\ locals' = [locals EXCEPT ![AttachSessionVar(d)] =
                                       Some(Arrived(d, Handle(d, "attach"), AttachEventName).h)]
                     /\ pc' = AfterAttach(d)
                     /\ UNCHANGED <<result, error>>
                ELSE /\ phase' = [phase EXCEPT ![d] = "Failed"]
                     /\ Raise("TestFailure")
                     /\ UNCHANGED locals
    /\ UNCHANGED <<cfg, ids, call, emitted, ret>>

\* ------------------------------------------------------------ publish, subscribe

\* Weakened variant: the session-initialized flag is not asserted.
SessionStartAccepted_NoFlag(expected, data) == data.callbackName = expected

\* The two assertions of _start_publish and _start_subscribe on the
\* discoveryResult event: the callback name is the started callback of the
\* role, and the session-initialized flag is true.
SessionStartAccepted(expected, data) ==
    /\ data.callbackName = expected
    /\ data.isSessionInitialized

\* _start_publish up to its wait: the config, to_dict, wifiAwarePublish.
StartPublish ==
    /\ pc = "publish"
    /\ LET config == PublishConfig(cfg.ssi, Some(cfg.mf), UNSOLICITED, cfg.ranging) IN
       IF ConfigDecodes(config)
       THEN /\ ops' = Append(ops, Op(publisher, "wifiAwarePublish",
                         <<locals.publisher_attach_session[1], PublishConfig_to_dict(config)>>))
            /\ phase' = [phase EXCEPT ![publisher] = "SessionStarting"]
            /\ pc' = "wait_publish"
            /\ UNCHANGED <<result, error>>
       ELSE /\ Raise("UnicodeDecodeError")
            /\ UNCHANGED <<ops, phase>>
    /\ UNCHANGED <<cfg, ids, call, locals, waits, emitted, consumed, ret>>

\* Weakened variant: the subscribe session is started on the attach
\* session of the publisher.
StartSubscribe_PublisherAttach ==
    /\ pc = "subscribe"
    /\ LET config == SubscribeConfig(SUB_SSI, Some(cfg.mf), PASSIVE, None) IN
       IF ConfigDecodes(config)
       THEN /\ ops' = Append(ops, Op(subscriber, "wifiAwareSubscribe",
                         <<locals.publisher_attach_session[1], SubscribeConfig_to_dict(config)>>))
            /\ phase' = [phase EXCEPT ![subscriber] = "SessionStarting"]
            /\ pc' = "wait_subscribe"
            /\ UNCHANGED <<result, error>>
       ELSE /\ Raise("UnicodeDecodeError")
            /\ UNCHANGED <<ops, phase>>
    /\ UNCHANGED <<cfg, ids, call, locals, waits, emitted, consumed, ret>>

\* _start_subscribe up to its wait; service_specific_info is left at its
\* default, SUB_SSI.
StartSubscribe ==
    /\ pc = "subscribe"
    /\ LET config == SubscribeConfig(SUB_SSI, Some(cfg.mf), PASSIVE, None) IN
       IF ConfigDecodes(config)
       THEN /\ ops' = Append(ops, Op(subscriber, "wifiAwareSubscribe",
                         <<locals.subscriber_attach_session[1], SubscribeConfig_to_dict(config)>>))
            /\ phase' = [phase EXCEPT ![subscriber] = "SessionStarting"]
            /\ pc' = "wait_subscribe"
            /\ UNCHANGED <<result, error>>
       ELSE /\ Raise("UnicodeDecodeError")
            /\ UNCHANGED <<ops, phase>>
    /\ UNCHANGED <<cfg, ids, call, locals, waits, emitted, consumed, ret>>

SessionOp(d) == IF d = publisher THEN "wifiAwarePublish" ELSE "wifiAwareSubscribe"

\* The device answers a publish or subscribe with one discoveryResult
\* event, triggered by onPublishStarted, onSubscribeStarted or
\* onSessionConfigFailed.
DeviceSessionCallback(d) ==
    /\ Issued(d, SessionOp(d))
    /\ CountEmitted(d, {DISCOVER_RESULT}) = 0
    /\ \E cb \in {PUBLISH_STARTED, SUBSCRIBE_STARTED, SESSION_CONFIG_FAILED},
          init \in BOOLEAN :
           Emit(d, Event(Handle(d, "session"), DISCOVER_RESULT,
                         [callbackName |-> cb, isSessionInitialized |-> init]))
    /\ UNCHANGED <<pc, cfg, ids, call, locals, phase, ops, waits, consumed, result, error, ret>>

\* The rest of _start_publish / _start_subscribe, from the wait on, for the
\* device d, the started callback of its role and the caller's next step.
WaitSessionStarted(d, expected, var, next) ==
    /\ \/ /\ TimesOut(d, Handle(d, "session"), DISCOVER_RESULT, DEFAULT_TIMEOUT)
          /\ phase' = [phase EXCEPT ![d] = "Failed"]
          /\ Raise("TimeoutError")
          /\ UNCHANGED locals
       \/ /\ Returns(d, Handle(d, "session"), DISCOVER_RESULT, DEFAULT_TIMEOUT)
          /\ IF SessionStartAccepted(expected,
                    Arrived(d, Handle(d, "session"), DISCOVER_RESULT).data)
             THEN /\ phase' = [phase EXCEPT ![d] = "SessionActive"]
                  /\ locals' = [locals EXCEPT ![var] = Some(Handle(d, "session"))]
                  /\ pc' = next
                  /\ UNCHANGED <<result, error>>
             ELSE /\ phase' = [phase EXCEPT ![d] = "Failed"]
                  /\ Raise("TestFailure")
                  /\ UNCHANGED locals
    /\ UNCHANGED <<cfg, ids, call, ops, emitted, ret>>

\* Weakened variant: the discovery wait starts once the publisher is active.
AfterPublish_SkipSubscribe == "wait_discovery"

\* test_create_wifi_aware_network: _start_subscribe follows _start_publish,
\* _wait_for_discovery follows _start_subscribe.
AfterPublish == "subscribe"
AfterSubscribe == "wait_discovery"

WaitPublishStarted ==
    /\ pc = "wait_publish"
    /\ WaitSessionStarted(publisher, PUBLISH_STARTED, "publish_session", AfterPublish)

WaitSubscribeStarted ==
    /\ pc = "wait_subscribe"
    /\ WaitSessionStarted(subscriber, SUBSCRIBE_STARTED, "subscribe_session",
                          AfterSubscribe)

\* ------------------------------------------------------------ discovery

\* The arguments of one _send_msg_and_check_received call; site is the line
\* of test_create_wifi_aware_network that makes it ("direct": a call of the
\* helper on its own).
ExchangeCall(site, sender, discovery_session, peer, send_message, send_message_id) ==
    [site |-> site, sender |-> sender, receiver |-> Other(sender),
     discovery_session |-> discovery_session, peer |-> peer,
     send_message |-> send_message, send_message_id |-> send_message_id]

\* The arguments of one _request_network or _wait_for_network call.
NetworkCall(site, ad, discovery_session, peer) ==
    [site |-> site, ad |-> ad, discovery_session |-> discovery_session, peer |-> peer]

\* The subscriber's discovery session, once its start was reported,
\* discovers the published service: any of the two events, with any payload.
DeviceServiceDiscovered ==
    /\ Issued(publisher, "wifiAwarePublish")
    /\ CountEmitted(subscriber, {DISCOVER_RESULT}) > 0
    /\ CountEmitted(subscriber, {SERVICE_DISCOVERED, SERVICE_DISCOVERED_WITHIN_RANGE})
           < MaxDiscoveryEvents
    /\ \E name \in {SERVICE_DISCOVERED, SERVICE_DISCOVERED_WITHIN_RANGE},
          ssi \in WireSsi, mf \in WireFilters, peer \in PeerHandles :
           Emit(subscriber, Event(Handle(subscriber, "session"), name,
                    [serviceSpecificInfo |-> ssi, matchFilter |-> mf, peerId |-> peer]))
    /\ UNCHANGED <<pc, cfg, ids, call, locals, phase, ops, waits, consumed, result, error, ret>>

\* Weakened variant: the name does not depend on ranging.
DiscoveryEventName_Fixed(is_ranging_enabled) == SERVICE_DISCOVERED

\* The event name _wait_for_discovery waits for.
DiscoveryEventName(is_ranging_enabled) ==
    IF is_ranging_enabled THEN SERVICE_DISCOVERED_WITHIN_RANGE ELSE SERVICE_DISCOVERED

\* _wait_for_discovery after its wait returned the event: "ok" when it
\* returns, else the exception it raises.  The expected values are the
\* constants of WifiAwareTestConstants; pub_service_specific_info is not
\* read.  The return statement reads the enum member PEER_ID.
DiscoveryOutcome(data, pub_service_specific_info) ==
    IF ~BytesOk(data.serviceSpecificInfo) THEN "ValueError"
    ELSE IF data.serviceSpecificInfo # PUB_SSI THEN "TestFailure"
    ELSE IF \E i \in 1..Len(data.matchFilter) : ~BytesOk(data.matchFilter[i])
         THEN "ValueError"
    ELSE IF data.matchFilter # <<MATCH_FILTER_BYTES>> THEN "TestFailure"
    ELSE IF "PEER_ID" \notin WifiAwareSnippetParams THEN "AttributeError"
    ELSE "ok"

\* _wait_for_discovery, and on its return the first
\* _send_msg_and_check_received call of the test.
WaitForDiscovery ==
    /\ pc = "wait_discovery"
    /\ LET h == Handle(subscriber, "session")
           name == DiscoveryEventName(cfg.ranging)
       IN  \/ /\ TimesOut(subscriber, h, name, DEFAULT_TIMEOUT)
              /\ Raise("TimeoutError")
              /\ UNCHANGED <<locals, call>>
           \/ /\ Returns(subscriber, h, name, DEFAULT_TIMEOUT)
              /\ LET data == Arrived(subscriber, h, name).data
                     out == DiscoveryOutcome(data, cfg.ssi)
                 IN  IF out = "ok"
                     THEN /\ locals' = [locals EXCEPT !.subscriber_peer = Some(data.peerId)]
                          /\ call' = ExchangeCall("L141", subscriber,
                                         locals.subscribe_session[1], data.peerId,
                                         MSG_SUB_TO_PUB, ids.sub_to_pub)
                          /\ pc' = "send_msg"
                          /\ UNCHANGED <<result, error>>
                     ELSE /\ Raise(out)
                          /\ UNCHANGED <<locals, call>>
    /\ UNCHANGED <<cfg, ids, phase, ops, emitted, ret>>

\* ------------------------------------------------------------ teardown

\* Weakened variant: teardown_test is over after its first worker.
Teardown_FirstOnly(d) ==
    /\ pc = "end"
    /\ ~Issued(d, "wifiAwareCloseAllWifiAwareSession")
    /\ ops' = Append(ops, Op(d, "wifiAwareCloseAllWifiAwareSession", <<>>))
    /\ pc' = "done"
    /\ UNCHANGED <<cfg, ids, call, locals, phase, waits, emitted, consumed, result, error, ret>>

\* teardown_test: _teardown_test_on_device on both devices, by two workers.
Teardown(d) ==
    /\ pc = "end"
    /\ ~Issued(d, "wifiAwareCloseAllWifiAwareSession")
    /\ ops' = Append(ops, Op(d, "wifiAwareCloseAllWifiAwareSession", <<>>))
    /\ pc' = IF Issued(Other(d), "wifiAwareCloseAllWifiAwareSession") THEN "done" ELSE "end"
    /\ UNCHANGED <<cfg, ids, call, locals, phase, waits, emitted, consumed, result, error, ret>>

\* ------------------------------------------------------------ the test case

Next ==
    \/ \E d \in Devices : StartAttach(d)
    \/ \E d \in Devices : DeviceAttachCallback(d)
    \/ \E d \in Devices : WaitAttached(d)
    \/ StartPublish
    \/ StartSubscribe
    \/ \E d \in Devices : DeviceSessionCallback(d)
    \/ WaitPublishStarted
    \/ WaitSubscribeStarted
    \/ DeviceServiceDiscovered
    \/ WaitForDiscovery
    \/ \E d \in Devices : Teardown(d)

\* One run of test_create_wifi_aware_network and its teardown.
Spec == Init /\ [][Next]_vars

\* The same run with the helpers given any configuration.
SpecConfig == InitAnyConfig /\ [][Next]_vars

\* ------------------------------------------------------------ setup_class

\* setup_device, run by one worker per device: the snippet is loaded, the
\* permissions granted, and abort_all_if raises in the worker when
\* wifiAwareIsAvailable() is false.
SetupDevice(d) ==
    /\ pc = "setup_class"
    /\ phase[d] = "New"
    /\ ops' = Append(ops, Op(d, "wifiAwareIsAvailable", <<>>))
    /\ \E available \in BOOLEAN :
          phase' = [phase EXCEPT ![d] = IF available THEN "Idle" ELSE "Unavailable"]
    /\ UNCHANGED <<pc, cfg, ids, call, locals, waits, emitted, consumed, result, error, ret>>

\* Weakened variant: raise_on_exception is off, what a worker raised is
\* only logged.
SetupClassDone_NoRaise ==
    /\ pc = "setup_class"
    /\ \A d \in Devices : phase[d] # "New"
    /\ pc' = "attach_pub"
    /\ UNCHANGED <<cfg, ids, call, locals, phase, ops, waits, emitted, consumed,
                   result, error, ret>>

\* concurrent_exec(..., raise_on_exception=True) once both workers are
\* through: it raises out of setup_class when a worker raised, and then no
\* test case is run; otherwise the test case is entered.
SetupClassDone ==
    /\ pc = "setup_class"
    /\ \A d \in Devices : phase[d] # "New"
    /\ IF \E d \in Devices : phase[d] = "Unavailable"
       THEN pc' = "aborted" /\ result' = "not run" /\ error' = "setup_class raised"
       ELSE pc' = "attach_pub" /\ UNCHANGED <<result, error>>
    /\ UNCHANGED <<cfg, ids, call, locals, phase, ops, waits, emitted, consumed, ret>>

\* The test class is constructed; setup_class is entered.
InitClass ==
    /\ InitCommon
    /\ pc = "setup_class"
    /\ cfg = TestConfig
    /\ phase = [d \in Devices |-> "New"]

NextClass ==
    \/ \E d \in Devices : SetupDevice(d)
    \/ SetupClassDone
    \/ Next

\* setup_class, and the test case when setup_class lets it run.
SpecClass == InitClass /\ [][NextClass]_vars

\* The steps of the host.  The host is one thread (two workers in
\* teardown_test): each remote call returns and each wait returns or times
\* out, so a step of the host that stays possible is taken.  The devices
\* owe the host nothing.
HostNext ==
    \/ \E d \in Devices : StartAttach(d)
    \/ \E d \in Devices : WaitAttached(d)
    \/ StartPublish
    \/ StartSubscribe
    \/ WaitPublishStarted
    \/ WaitSubscribeStarted
    \/ WaitForDiscovery
    \/ \E d \in Devices : Teardown(d)

\* The run of the test case with a host that keeps going.
SpecLive == Init /\ [][Next]_vars /\ WF_vars(HostNext)

\* ------------------------------------------------------------ to_dict

\* Byte strings a config may hold: "P", U+00E9 as UTF-8, and one that is
\* not UTF-8.
ConfigBytes == {PUB_SSI, <<195, 169>>, <<233>>}
\* match_filter: None, the empty list, one entry, two entries.
ConfigFilters ==
    {None, Some(<<>>), Some(<<MATCH_FILTER_BYTES>>),
     Some(<<MATCH_FILTER_BYTES, OTHER_FILTER_BYTES>>)}
\* pairing_config: None or an AwarePairingConfig (bootstrapping_methods is
\* the default, OPPORTUNISTIC).
ConfigPairings ==
    {None} \cup
    {Some([pairing_cache_enabled |-> b, pairing_setup_enabled |-> FALSE,
           pairing_verification_enabled |-> FALSE,
           bootstrapping_methods |-> OPPORTUNISTIC]) : b \in BOOLEAN}
\* max_distance_mm: None, zero, a distance.
ConfigDistances == {None, Some(0), Some(ONE_METRE_MM)}

\* Every PublishConfig and SubscribeConfig over these values.
PublishConfigs ==
    {[PublishConfig(ssi, mf, UNSOLICITED, r) EXCEPT !.pairing_config = p] :
        ssi \in ConfigBytes, mf \in ConfigFilters, r \in BOOLEAN, p \in ConfigPairings}
SubscribeConfigs ==
    {[SubscribeConfig(ssi, mf, PASSIVE, dist) EXCEPT !.pairing_config = p] :
        ssi \in ConfigBytes, mf \in ConfigFilters, dist \in ConfigDistances,
        p \in ConfigPairings}

\* to_dict is called on a config.
InitToDict ==
    /\ pc = "to_dict"
    /\ \/ \E c \in PublishConfigs : call = [site |-> "PublishConfig.to_dict", config |-> c]
       \/ \E c \in SubscribeConfigs : call = [site |-> "SubscribeConfig.to_dict", config |-> c]
    /\ ids = [sub_to_pub |-> 1000, pub_to_sub |-> 5001]
    /\ cfg = TestConfig
    /\ locals = NoLocals
    /\ phase = [d \in Devices |-> "Idle"]
    /\ ops = <<>>
    /\ waits = <<>>
    /\ emitted = [d \in Devices |-> <<>>]
    /\ consumed = [d \in Devices |-> {}]
    /\ result = "running"
    /\ error = ""
    /\ ret = None

\* to_dict returns the mapping, or the decode of a byte string raises.
ToDict ==
    /\ pc = "to_dict"
    /\ IF ConfigDecodes(call.config)
       THEN /\ ret' = Some(IF call.site = "PublishConfig.to_dict"
                           THEN PublishConfig_to_dict(call.config)
                           ELSE SubscribeConfig_to_dict(call.config))
            /\ pc' = "returned"
            /\ UNCHANGED <<result, error>>
       ELSE /\ Raise("UnicodeDecodeError")
            /\ UNCHANGED ret
    /\ UNCHANGED <<cfg, ids, call, locals, phase, ops, waits, emitted, consumed>>

SpecToDict == InitToDict /\ [][ToDict]_vars

\* ------------------------------------------------------------ pairing config

\* The members of BootstrappingMethod, an enum.IntEnum, by their values.
BootstrappingMethods == {1, 2, 4, 8, 16, 32, 64, 128, 256}

\* A Python object a caller may pass as bootstrapping_methods: a member of
\* the enum, or a plain int.
PyInt(type, v) == [type |-> type, value |-> v]

\* a | b on two non-negative integers.
RECURSIVE BitOr(_, _)
BitOr(a, b) ==
    IF a = 0 THEN b
    ELSE IF b = 0 THEN a
    ELSE (IF a % 2 = 1 \/ b % 2 = 1 THEN 1 ELSE 0) + 2 * BitOr(a \div 2, b \div 2)

\* m1 | m2 | ... over the members selected.  The operators of an IntEnum
\* are those of int: the result of | is a plain int, and one member alone
\* is the member.
RECURSIVE OrOf(_)
OrOf(S) ==
    IF S = {} THEN 0
    ELSE LET m == CHOOSE x \in S : TRUE IN BitOr(m, OrOf(S \ {m}))

\* The AwarePairingConfig objects: any three flags, and for
\* bootstrapping_methods any combination of one or more members.
PairingConfigs ==
    {[pairing_cache_enabled |-> c, pairing_setup_enabled |-> s,
      pairing_verification_enabled |-> v,
      bootstrapping_methods |->
          PyInt(IF Cardinality(S) = 1 THEN "BootstrappingMethod" ELSE "int", OrOf(S))] :
        c \in BOOLEAN, s \in BOOLEAN, v \in BOOLEAN,
        S \in (SUBSET BootstrappingMethods) \ {{}}}
\* AwarePairingConfig(): the defaults of the dataclass.
DefaultPairingConfig ==
    [pairing_cache_enabled |-> FALSE, pairing_setup_enabled |-> FALSE,
     pairing_verification_enabled |-> FALSE,
     bootstrapping_methods |-> PyInt("BootstrappingMethod", OPPORTUNISTIC)]

\* AwarePairingConfig.to_dict is called on a config.
InitPairing ==
    /\ pc = "to_dict"
    /\ \E p \in PairingConfigs : call = [site |-> "AwarePairingConfig.to_dict", config |-> p]
    /\ ids = [sub_to_pub |-> 1000, pub_to_sub |-> 5001]
    /\ cfg = TestConfig
    /\ locals = NoLocals
    /\ phase = [d \in Devices |-> "Idle"]
    /\ ops = <<>>
    /\ waits = <<>>
    /\ emitted = [d \in Devices |-> <<>>]
    /\ consumed = [d \in Devices |-> {}]
    /\ result = "running"
    /\ error = ""
    /\ ret = None

\* to_dict returns the mapping, or reading .value raises: only a member of
\* the enum has the attribute.
PairingToDict ==
    /\ pc = "to_dict"
    /\ IF call.config.bootstrapping_methods.type = "BootstrappingMethod"
       THEN /\ ret' = Some(AwarePairingConfig_to_dict(
                              [call.config EXCEPT !.bootstrapping_methods = @.value]))
            /\ pc' = "returned"
            /\ UNCHANGED <<result, error>>
       ELSE /\ Raise("AttributeError")
            /\ UNCHANGED ret
    /\ UNCHANGED <<cfg, ids, call, locals, phase, ops, waits, emitted, consumed>>

SpecPairing == InitPairing /\ [][PairingToDict]_vars

\* ------------------------------------------------------------ message exchange

\* What the devices may put on the wire in a send result and in a received
\* message: the identifiers in use, and "L", "R", U+00E9 as UTF-8, and a
\* byte string that is not UTF-8.
WireIds == SubToPubIds \cup PubToSubIds
WireMsgs == {<<76>>, <<82>>, <<195, 169>>, <<233>>}
\* The str values a caller may send: "L", "R", U+00E9.
SendMsgs == {MSG_SUB_TO_PUB, MSG_PUB_TO_SUB, <<233>>}

\* _send_msg_and_check_received up to its first wait: wifiAwareSendMessage.
SendMessage ==
    /\ pc = "send_msg"
    /\ ops' = Append(ops, Op(call.sender, "wifiAwareSendMessage",
                  <<call.discovery_session, call.peer, call.send_message_id,
                    call.send_message>>))
    /\ pc' = "wait_send_result"
    /\ UNCHANGED <<cfg, ids, call, locals, phase, waits, emitted, consumed, result, error, ret>>

\* The sending device reports the result of each send once:
\* onMessageSendSucceeded or onMessageSendFailed, with a message id.
DeviceSendResult(d) ==
    /\ CountEmitted(d, {MESSAGE_SEND_RESULT}) < CountOps(d, "wifiAwareSendMessage")
    /\ \E cb \in {MESSAGE_SEND_SUCCEEDED, MESSAGE_SEND_FAILED}, id \in WireIds :
           Emit(d, Event(Handle(d, "session"), MESSAGE_SEND_RESULT,
                         [callbackName |-> cb, messageId |-> id]))
    /\ UNCHANGED <<pc, cfg, ids, call, locals, phase, ops, waits, consumed, result, error, ret>>

\* The device a message was sent to reports a received message, once per
\* message sent, with any content and peer handle.
DeviceMessageReceived(d) ==
    /\ CountEmitted(d, {MESSAGE_RECEIVED}) < CountOps(Other(d), "wifiAwareSendMessage")
    /\ \E raw \in WireMsgs, peer \in PeerHandles :
           Emit(d, Event(Handle(d, "session"), MESSAGE_RECEIVED,
                         [receivedMessage |-> raw, peerId |-> peer]))
    /\ UNCHANGED <<pc, cfg, ids, call, locals, phase, ops, waits, consumed, result, error, ret>>

\* Weakened variant: the echoed message identifier is not asserted.
SendResultAccepted_NoIdCheck(data, send_message_id) ==
    data.callbackName = MESSAGE_SEND_SUCCEEDED

\* The two assertions on the messageSendResult event.
SendResultAccepted(data, send_message_id) ==
    /\ data.callbackName = MESSAGE_SEND_SUCCEEDED
    /\ data.messageId = send_message_id

\* Weakened variant: a rejected send result makes the helper send again.
WaitSendResult_Retry ==
    /\ pc = "wait_send_result"
    /\ LET h == Handle(call.sender, "session") IN
       \/ /\ TimesOut(call.sender, h, MESSAGE_SEND_RESULT, DEFAULT_TIMEOUT)
          /\ Raise("TimeoutError")
       \/ /\ Returns(call.sender, h, MESSAGE_SEND_RESULT, DEFAULT_TIMEOUT)
          /\ IF SendResultAccepted(Arrived(call.sender, h, MESSAGE_SEND_RESULT).data,
                                   call.send_message_id)
             THEN pc' = "wait_msg_received" /\ UNCHANGED <<result, error>>
             ELSE pc' = "send_msg" /\ UNCHANGED <<result, error>>
    /\ UNCHANGED <<cfg, ids, call, locals, phase, ops, emitted, ret>>

\* _send_msg_and_check_received from its first wait to its second.
WaitSendResult ==
    /\ pc = "wait_send_result"
    /\ LET h == Handle(call.sender, "session") IN
       \/ /\ TimesOut(call.sender, h, MESSAGE_SEND_RESULT, DEFAULT_TIMEOUT)
          /\ Raise("TimeoutError")
       \/ /\ Returns(call.sender, h, MESSAGE_SEND_RESULT, DEFAULT_TIMEOUT)
          /\ IF SendResultAccepted(Arrived(call.sender, h, MESSAGE_SEND_RESULT).data,
                                   call.send_message_id)
             THEN pc' = "wait_msg_received" /\ UNCHANGED <<result, error>>
             ELSE Raise("TestFailure")
    /\ UNCHANGED <<cfg, ids, call, locals, phase, ops, emitted, ret>>

\* Weakened variant: the received content is decoded but not compared.
ReceivedOutcome_NoCompare(data, send_message) ==
    IF ~BytesOk(data.receivedMessage) THEN "ValueError"
    ELSE IF ~Utf8Valid(data.receivedMessage) THEN "UnicodeDecodeError"
    ELSE IF "PEER_ID" \notin WifiAwareSnippetParams THEN "AttributeError"
    ELSE "ok"

\* _send_msg_and_check_received after its second wait returned the event:
\* "ok" when it returns, else the exception it raises.  The return statement
\* reads the enum member PEER_ID.
ReceivedOutcome(data, send_message) ==
    IF ~BytesOk(data.receivedMessage) THEN "ValueError"
    ELSE IF ~Utf8Valid(data.receivedMessage) THEN "UnicodeDecodeError"
    ELSE IF Utf8Decode(data.receivedMessage) # send_message THEN "TestFailure"
    ELSE IF "PEER_ID" \notin WifiAwareSnippetParams THEN "AttributeError"
    ELSE "ok"

\* _send_msg_and_check_received from its second wait on, and what the caller
\* does with the peer handle it returns: line 141 keeps it as publisher_peer
\* and makes the reverse call, line 156 goes on to the network request.
WaitMessageReceived ==
    /\ pc = "wait_msg_received"
    /\ LET h == Handle(call.receiver, "session") IN
       \/ /\ TimesOut(call.receiver, h, MESSAGE_RECEIVED, DEFAULT_TIMEOUT)
          /\ Raise("TimeoutError")
          /\ UNCHANGED <<locals, call, ret>>
       \/ /\ Returns(call.receiver, h, MESSAGE_RECEIVED, DEFAULT_TIMEOUT)
          /\ LET data == Arrived(call.receiver, h, MESSAGE_RECEIVED).data
                 out == ReceivedOutcome(data, call.send_message)
             IN  IF out # "ok"
                 THEN Raise(out) /\ UNCHANGED <<locals, call, ret>>
                 ELSE /\ UNCHANGED <<result, error>>
                      /\ CASE call.site = "L141" ->
                                /\ locals' = [locals EXCEPT !.publisher_peer = Some(data.peerId)]
                                /\ call' = ExchangeCall("L156", publisher,
                                               locals.publish_session[1], data.peerId,
                                               MSG_PUB_TO_SUB, ids.pub_to_sub)
                                /\ pc' = "send_msg"
                                /\ UNCHANGED ret
                           [] call.site = "L156" ->
                                /\ call' = NetworkCall("L171", publisher,
                                               locals.publish_session[1],
                                               locals.publisher_peer[1])
                                /\ pc' = "request_network"
                                /\ UNCHANGED <<locals, ret>>
                           [] OTHER ->
                                /\ ret' = Some(data.peerId)
                                /\ pc' = "returned"
                                /\ UNCHANGED <<locals, call>>
    /\ UNCHANGED <<cfg, ids, phase, ops, emitted>>

\* A state in which both discovery sessions are active.
SessionsActive ==
    /\ locals = [NoLocals EXCEPT
                    !.publisher_attach_session = Some(Handle(publisher, "attach")),
                    !.subscriber_attach_session = Some(Handle(subscriber, "attach")),
                    !.publish_session = Some(Handle(publisher, "session")),
                    !.subscribe_session = Some(Handle(subscriber, "session"))]
    /\ phase = [d \in Devices |-> "SessionActive"]
    /\ cfg = TestConfig
    /\ ops = <<>>
    /\ waits = <<>>
    /\ emitted = [d \in Devices |-> <<>>]
    /\ consumed = [d \in Devices |-> {}]
    /\ result = "running"
    /\ error = ""
    /\ ret = None

\* _send_msg_and_check_received called on its own, in either direction,
\* with any peer, message and message identifier.
InitExchange ==
    /\ SessionsActive
    /\ ids \in MsgIds
    /\ pc = "send_msg"
    /\ \E sender \in Devices, peer \in PeerHandles, msg \in SendMsgs, id \in WireIds :
           call = ExchangeCall("direct", sender, Handle(sender, "session"), peer, msg, id)

NextExchange ==
    \/ SendMessage
    \/ \E d \in Devices : DeviceSendResult(d)
    \/ \E d \in Devices : DeviceMessageReceived(d)
    \/ WaitSendResult
    \/ WaitMessageReceived

SpecExchange == InitExchange /\ [][NextExchange]_vars

\* test_create_wifi_aware_network at line 141 and at line 156, as it
\* stands when _wait_for_discovery, and then the first exchange, have
\* returned a peer handle: the call each line makes.
InitSends ==
    /\ ids \in MsgIds
    /\ cfg = TestConfig
    /\ phase = [d \in Devices |-> "SessionActive"]
    /\ ops = <<>>
    /\ waits = <<>>
    /\ emitted = [d \in Devices |-> <<>>]
    /\ consumed = [d \in Devices |-> {}]
    /\ result = "running"
    /\ error = ""
    /\ ret = None
    /\ pc = "send_msg"
    /\ \E sp \in PeerHandles, pp \in PeerHandles :
          LET bound == [NoLocals EXCEPT
                           !.publisher_attach_session = Some(Handle(publisher, "attach")),
                           !.subscriber_attach_session = Some(Handle(subscriber, "attach")),
                           !.publish_session = Some(Handle(publisher, "session")),
                           !.subscribe_session = Some(Handle(subscriber, "session")),
                           !.subscriber_peer = Some(sp)]
          IN  \/ /\ locals = bound
                 /\ call = ExchangeCall("L141", subscriber, bound.subscribe_session[1], sp,
                                        MSG_SUB_TO_PUB, ids.sub_to_pub)
              \/ /\ locals = [bound EXCEPT !.publisher_peer = Some(pp)]
                 /\ call = ExchangeCall("L156", publisher, bound.publish_session[1], pp,
                                        MSG_PUB_TO_SUB, ids.pub_to_sub)

\* Lines 141-165 of the test case.
SpecSends == InitSends /\ [][NextExchange]_vars

\* ------------------------------------------------------------ network

\* Weakened variant: the specifier is left out of the mapping.
NetworkRequest_to_dict_NoSpecifier(transport_type, network_specifier_parcel) ==
    [transport_type |-> transport_type]

\* NetworkRequest.to_dict
NetworkRequest_to_dict(transport_type, network_specifier_parcel) ==
    [transport_type |-> transport_type, network_specifier |-> network_specifier_parcel]

\* The token wifiAwareCreateNetworkSpecifier returns on device ad.
Specifier(ad, discovery_session, peer) == <<"specifier", ad, discovery_session, peer>>

\* _request_network, and what the caller does with the handler: line 171
\* requests on the subscriber next, line 174 starts the publisher's wait.
RequestNetwork ==
    /\ pc = "request_network"
    /\ ops' = ops \o
          <<Op(call.ad, "wifiAwareCreateNetworkSpecifier",
               <<call.discovery_session, call.peer>>),
            Op(call.ad, "connectivityRequestNetwork",
               <<NetworkRequest_to_dict(TRANSPORT_WIFI_AWARE,
                     Specifier(call.ad, call.discovery_session, call.peer)),
                 REQUEST_NETWORK_TIMEOUT_MS>>)>>
    /\ CASE call.site = "L171" ->
              /\ locals' = [locals EXCEPT !.pub_network = Some(Handle(publisher, "network"))]
              /\ call' = NetworkCall("L174", subscriber, locals.subscribe_session[1],
                                     locals.subscriber_peer[1])
              /\ pc' = "request_network"
         [] call.site = "L174" ->
              /\ locals' = [locals EXCEPT !.sub_network = Some(Handle(subscriber, "network"))]
              /\ call' = [call EXCEPT !.site = "L178", !.ad = publisher]
              /\ pc' = "wait_network"
         [] OTHER ->
              /\ pc' = "wait_network"
              /\ UNCHANGED <<locals, call>>
    /\ UNCHANGED <<cfg, ids, phase, waits, emitted, consumed, result, error, ret>>

\* The device reports on a requested network: a NetworkCallback event with
\* a callback name, the network and its capabilities (either may be null)
\* and the class of the transport info.
DeviceNetworkCallback(d) ==
    /\ CountEmitted(d, {NETWORK_CALLBACK})
           < MaxNetworkEvents * CountOps(d, "connectivityRequestNetwork")
    /\ \E cb \in {ON_UNAVAILABLE, ON_CAPABILITIES_CHANGED, ON_AVAILABLE},
          network \in {None, Some("network")},
          capabilities \in {None, Some("capabilities")},
          class \in {AWARE_NETWORK_INFO_CLASS_NAME, OTHER_INFO_CLASS_NAME} :
           Emit(d, Event(Handle(d, "network"), NETWORK_CALLBACK,
                         [callbackName |-> cb, network |-> network,
                          networkCapabilities |-> capabilities,
                          transportInfoClassName |-> class]))
    /\ UNCHANGED <<pc, cfg, ids, call, locals, phase, ops, waits, consumed, result, error, ret>>

\* Python's truth value of an event field: null is false, an object true.
Truthy(v) == v # None

\* Weakened variant: a callback name the test does not know is let through.
NetworkOutcome_UnknownOk(data) ==
    IF data.callbackName = ON_UNAVAILABLE THEN "TestFailure"
    ELSE IF data.callbackName = ON_CAPABILITIES_CHANGED
         THEN IF ~(Truthy(data.network) /\ Truthy(data.networkCapabilities))
              THEN "TestFailure"
              ELSE IF data.transportInfoClassName # AWARE_NETWORK_INFO_CLASS_NAME
                   THEN "TestFailure"
                   ELSE "ok"
    ELSE "ok"

\* Weakened variant: only the network is asserted to be present.
NetworkOutcome_NoCapabilitiesCheck(data) ==
    IF data.callbackName = ON_UNAVAILABLE THEN "TestFailure"
    ELSE IF data.callbackName = ON_CAPABILITIES_CHANGED
         THEN IF ~Truthy(data.network)
              THEN "TestFailure"
              ELSE IF data.transportInfoClassName # AWARE_NETWORK_INFO_CLASS_NAME
                   THEN "TestFailure"
                   ELSE "ok"
    ELSE "TestFailure"

\* _wait_for_network after its wait returned the event: "ok" when it
\* returns, "TestFailure" when asserts.fail or an assertion raises.
NetworkOutcome(data) ==
    IF data.callbackName = ON_UNAVAILABLE THEN "TestFailure"
    ELSE IF data.callbackName = ON_CAPABILITIES_CHANGED
         THEN IF ~(Truthy(data.network) /\ Truthy(data.networkCapabilities))
              THEN "TestFailure"
              ELSE IF data.transportInfoClassName # AWARE_NETWORK_INFO_CLASS_NAME
                   THEN "TestFailure"
                   ELSE "ok"
    ELSE "TestFailure"

\* _wait_for_network, and the caller's next step: line 178 waits on the
\* subscriber next, line 182 goes on to release the resources.
WaitForNetwork ==
    /\ pc = "wait_network"
    /\ LET h == Handle(call.ad, "network") IN
       \/ /\ TimesOut(call.ad, h, NETWORK_CALLBACK, DEFAULT_TIMEOUT)
          /\ Raise("TimeoutError")
          /\ UNCHANGED call
       \/ /\ Returns(call.ad, h, NETWORK_CALLBACK, DEFAULT_TIMEOUT)
          /\ LET out == NetworkOutcome(Arrived(call.ad, h, NETWORK_CALLBACK).data) IN
             IF out # "ok"
             THEN Raise(out) /\ UNCHANGED call
             ELSE /\ UNCHANGED <<result, error>>
                  /\ CASE call.site = "L178" ->
                            /\ call' = [call EXCEPT !.site = "L182", !.ad = subscriber]
                            /\ pc' = "wait_network"
                       [] call.site = "L182" ->
                            /\ pc' = "release"
                            /\ UNCHANGED call
                       [] OTHER ->
                            /\ pc' = "returned"
                            /\ UNCHANGED call
    /\ UNCHANGED <<cfg, ids, locals, phase, ops, emitted, ret>>

\* _request_network and then _wait_for_network called on their own, on
\* either device, with any peer handle.
InitNetwork ==
    /\ SessionsActive
    /\ ids \in MsgIds
    /\ pc = "request_network"
    /\ \E ad \in Devices, peer \in PeerHandles :
           call = NetworkCall("direct", ad, Handle(ad, "session"), peer)

NextNetwork ==
    \/ RequestNetwork
    \/ \E d \in Devices : DeviceNetworkCallback(d)
    \/ WaitForNetwork

SpecNetwork == InitNetwork /\ [][NextNetwork]_vars

\* ------------------------------------------------------------ the tail

\* Weakened variant: the attach sessions are detached first.
Release_DetachFirst ==
    /\ pc = "release"
    /\ ops' = ops \o
          <<Op(publisher, "wifiAwareDetach", <<locals.publisher_attach_session[1]>>),
            Op(subscriber, "wifiAwareDetach", <<locals.subscriber_attach_session[1]>>),
            Op(publisher, "wifiAwareCloseDiscoverSession", <<locals.publish_session[1]>>),
            Op(subscriber, "wifiAwareCloseDiscoverSession", <<locals.subscribe_session[1]>>),
            Op(publisher, "connectivityUnregisterNetwork", <<locals.pub_network[1]>>),
            Op(subscriber, "connectivityUnregisterNetwork", <<locals.sub_network[1]>>)>>
    /\ pc' = "end"
    /\ result' = "passed"
    /\ UNCHANGED <<cfg, ids, call, locals, phase, waits, emitted, consumed, error, ret>>

\* Lines 188-193, reached when both network waits returned: the two
\* network requests are unregistered, the two discovery sessions closed,
\* the two attach sessions detached, and the test method returns.
Release ==
    /\ pc = "release"
    /\ ops' = ops \o
          <<Op(publisher, "connectivityUnregisterNetwork", <<locals.pub_network[1]>>),
            Op(subscriber, "connectivityUnregisterNetwork", <<locals.sub_network[1]>>),
            Op(publisher, "wifiAwareCloseDiscoverSession", <<locals.publish_session[1]>>),
            Op(subscriber, "wifiAwareCloseDiscoverSession", <<locals.subscribe_session[1]>>),
            Op(publisher, "wifiAwareDetach", <<locals.publisher_attach_session[1]>>),
            Op(subscriber, "wifiAwareDetach", <<locals.subscriber_attach_session[1]>>)>>
    /\ pc' = "end"
    /\ result' = "passed"
    /\ UNCHANGED <<cfg, ids, call, locals, phase, waits, emitted, consumed, error, ret>>

\* test_create_wifi_aware_network at line 170, as it stands when the two
\* exchanges have returned their peer handles: both sessions active, the
\* peer handles bound, the publisher's network request next.
InitTail ==
    /\ ids \in MsgIds
    /\ cfg = TestConfig
    /\ phase = [d \in Devices |-> "SessionActive"]
    /\ ops = <<>>
    /\ waits = <<>>
    /\ emitted = [d \in Devices |-> <<>>]
    /\ consumed = [d \in Devices |-> {}]
    /\ result = "running"
    /\ error = ""
    /\ ret = None
    /\ pc = "request_network"
    /\ \E sp \in PeerHandles, pp \in PeerHandles :
          /\ locals = [NoLocals EXCEPT
                          !.publisher_attach_session = Some(Handle(publisher, "attach")),
                          !.subscriber_attach_session = Some(Handle(subscriber, "attach")),
                          !.publish_session = Some(Handle(publisher, "session")),
                          !.subscribe_session = Some(Handle(subscriber, "session")),
                          !.subscriber_peer = Some(sp),
                          !.publisher_peer = Some(pp)]
          /\ call = NetworkCall("L171", publisher, Handle(publisher, "session"), pp)

NextTail ==
    \/ RequestNetwork
    \/ \E d \in Devices : DeviceNetworkCallback(d)
    \/ WaitForNetwork
    \/ Release
    \/ \E d \in Devices : Teardown(d)

\* Lines 170-193 of the test case and its teardown.
SpecTail == InitTail /\ [][NextTail]_vars

\* test_create_wifi_aware_network at line 178, as it stands when both
\* network requests were made: the handlers bound, the publisher's wait
\* next.  The peer handles are the two of PeerHandles.
InitRelease ==
    /\ ids = [sub_to_pub |-> 1000, pub_to_sub |-> 5001]
    /\ cfg = TestConfig
    /\ phase = [d \in Devices |-> "SessionActive"]
    /\ waits = <<>>
    /\ emitted = [d \in Devices |-> <<>>]
    /\ consumed = [d \in Devices |-> {}]
    /\ result = "running"
    /\ error = ""
    /\ ret = None
    /\ pc = "wait_network"
    /\ LET sp == 1
           pp == 2
       IN /\ locals = [publisher_attach_session |-> Some(Handle(publisher, "attach")),
                       subscriber_attach_session |-> Some(Handle(subscriber, "attach")),
                       publish_session |-> Some(Handle(publisher, "session")),
                       subscribe_session |-> Some(Handle(subscriber, "session")),
                       subscriber_peer |-> Some(sp),
                       publisher_peer |-> Some(pp),
                       pub_network |-> Some(Handle(publisher, "network")),
                       sub_network |-> Some(Handle(subscriber, "network"))]
          /\ call = NetworkCall("L178", publisher, Handle(subscriber, "session"), sp)
          /\ ops = <<Op(publisher, "wifiAwareCreateNetworkSpecifier",
                        <<Handle(publisher, "session"), pp>>),
                     Op(publisher, "connectivityRequestNetwork",
                        <<NetworkRequest_to_dict(TRANSPORT_WIFI_AWARE,
                              Specifier(publisher, Handle(publisher, "session"), pp)),
                          REQUEST_NETWORK_TIMEOUT_MS>>),
                     Op(subscriber, "wifiAwareCreateNetworkSpecifier",
                        <<Handle(subscriber, "session"), sp>>),
                     Op(subscriber, "connectivityRequestNetwork",
                        <<NetworkRequest_to_dict(TRANSPORT_WIFI_AWARE,
                              Specifier(subscriber, Handle(subscriber, "session"), sp)),
                          REQUEST_NETWORK_TIMEOUT_MS>>)>>

NextRelease ==
    \/ \E d \in Devices : DeviceNetworkCallback(d)
    \/ WaitForNetwork
    \/ Release

\* Lines 178-193 of the test case.
SpecRelease == InitRelease /\ [][NextRelease]_vars

\* ------------------------------------------------------------ wifi_upload_hook

\* A path is its directory and its base name; startswith(directory) is a
\* test of the first, equality a test of both.
VALUES_DIR == "service/ServiceWifiResources/res/values/"
DRAWABLE_DIR == "service/ServiceWifiResources/res/drawable/"
LAYOUT_DIR == "service/ServiceWifiResources/res/layout/"
BASE_WIFI_SERVICE_DIR == "service/java/com/android/server/wifi/"
OVERLAY_FILE == <<VALUES_DIR, "overlayable.xml">>
CONFIG_FILE == <<VALUES_DIR, "config.xml">>
STRING_FILE == <<VALUES_DIR, "strings.xml">>
STYLES_FILE == <<VALUES_DIR, "styles.xml">>
XML_UTIL_FILE == <<"service/java/com/android/server/wifi/util/", "XmlUtil.java">>
CLOUD_BACKUP_RESTORE_FILE == <<BASE_WIFI_SERVICE_DIR, "WifiBackupRestore.java">>
CLOUD_BACKUP_PARSER_FILE == <<BASE_WIFI_SERVICE_DIR, "WifiBackupDataV1Parser.java">>

\* A line of a commit message is a sequence of tokens: " " is white
\* space, the others are text in the case it was written in.
\* str.lower(), on the tokens of the model.
Lower(t) ==
    CASE t \in {"Updated-Overlayable", "UPDATED-OVERLAYABLE"} -> "updated-overlayable"
      [] t \in {"Reviewed-Cloud-B&R", "REVIEWED-CLOUD-B&R"} -> "reviewed-cloud-b&r"
      [] t = "Bug: 294871353" -> "bug: 294871353"
      [] t = ": TRUE" -> ": true"
      [] OTHER -> t

\* str.strip(): white space is removed at both ends.
RECURSIVE StripLeft(_)
StripLeft(line) ==
    IF line # <<>> /\ Head(line) = " " THEN StripLeft(Tail(line)) ELSE line
RECURSIVE StripRight(_)
StripRight(line) ==
    IF line # <<>> /\ line[Len(line)] = " "
    THEN StripRight(SubSeq(line, 1, Len(line) - 1))
    ELSE line

\* line.strip().lower()
Normalized(line) ==
    LET stripped == StripRight(StripLeft(line))
    IN  [i \in 1..Len(stripped) |-> Lower(stripped[i])]
\* str.startswith(prefix), the prefix being one token.
StartsWith(line, prefix) == line # <<>> /\ Head(line) = prefix

\* The loop of is_commit_msg_valid over the lines that are left.
RECURSIVE ValidLoop(_, _, _, _)
ValidLoop(lines, isValid, checkResource, checkXmlTag) ==
    IF lines = <<>> THEN isValid
    ELSE LET line == Normalized(Head(lines))
             hitR == checkResource /\ StartsWith(line, "updated-overlayable")
             valid1 == IF hitR THEN TRUE ELSE isValid
             cr == checkResource /\ ~hitR
             hitX == checkXmlTag /\ StartsWith(line, "reviewed-cloud-b&r")
             valid2 == IF checkXmlTag THEN hitX ELSE valid1
             cx == checkXmlTag /\ ~hitX
         IN  ValidLoop(Tail(lines), valid2, cr, cx)

is_commit_msg_valid(commit_msg, checkResource, checkXmlTag) ==
    ValidLoop(commit_msg, TRUE, checkResource, checkXmlTag)

\* Weakened variant: without a current branch line the commit is taken to
\* be outside AOSP.
RECURSIVE is_in_aosp_NoDefault(_)
is_in_aosp_NoDefault(branches) ==
    IF branches = <<>> THEN FALSE
    ELSE IF Head(branches).star THEN Head(branches).aosp
    ELSE is_in_aosp_NoDefault(Tail(branches))

\* is_in_aosp on the lines of "git branch -vv": a line is whether it
\* starts with "*" and whether it contains "[aosp/".
RECURSIVE is_in_aosp(_)
is_in_aosp(branches) ==
    IF branches = <<>> THEN TRUE
    ELSE IF Head(branches).star THEN Head(branches).aosp
    ELSE is_in_aosp(Tail(branches))

IsResourceFile(f) ==
    f \in {STRING_FILE, CONFIG_FILE, STYLES_FILE} \/ f[1] \in {DRAWABLE_DIR, LAYOUT_DIR}
IsXmlRelatedFile(f) ==
    f \in {XML_UTIL_FILE, CLOUD_BACKUP_RESTORE_FILE, CLOUD_BACKUP_PARSER_FILE}

\* get_changed_resource_file: the first such file of the list, or None.
RECURSIVE get_changed_resource_file(_)
get_changed_resource_file(commit_files) ==
    IF commit_files = <<>> THEN None
    ELSE IF IsResourceFile(Head(commit_files)) THEN Some(Head(commit_files))
    ELSE get_changed_resource_file(Tail(commit_files))

RECURSIVE get_changed_xml_related_file(_)
get_changed_xml_related_file(commit_files) ==
    IF commit_files = <<>> THEN None
    ELSE IF IsXmlRelatedFile(Head(commit_files)) THEN Some(Head(commit_files))
    ELSE get_changed_xml_related_file(Tail(commit_files))

RECURSIVE is_commit_msg_has_translation_bug_id(_)
is_commit_msg_has_translation_bug_id(commit_msg) ==
    IF commit_msg = <<>> THEN FALSE
    ELSE IF StartsWith(Normalized(Head(commit_msg)), "bug: 294871353") THEN TRUE
    ELSE is_commit_msg_has_translation_bug_id(Tail(commit_msg))

\* is_xml_tag_in_commits on the lines "git show | grep -iE XML_TAG" prints:
\* a line is its first character.
is_xml_tag_in_commits(show) == \E i \in 1..Len(show) : show[i] \in {"+", "-"}

\* What main() does on its arguments and on what git reports: the calls
\* it makes and the guidance it prints, in order, and how it ends (code is
\* the value returned, error the exception raised).  The format call of
\* line 122 names changed_resource_file where the text has {changed_file}.
main(in) ==
    LET HookStep(name) == Op("hook", name, <<>>)
        HookEnd(steps, code, err) == [log |-> steps, code |-> code, error |-> err]
        rf == get_changed_resource_file(in.commit_files)
        xf == get_changed_xml_related_file(in.commit_files)
        s1 == <<HookStep("is_in_aosp")>>
        s2 == s1 \o <<HookStep("get_changed_resource_file")>>
        s3 == IF rf # None /\ rf[1] = STRING_FILE
              THEN s2 \o <<HookStep("is_commit_msg_has_translation_bug_id")>> ELSE s2
        s4 == IF rf # None
              THEN s3 \o <<HookStep("is_commit_msg_valid(resource)")>> ELSE s3
        s5 == s4 \o <<HookStep("get_changed_xml_related_file")>>
        s6 == IF xf # None THEN s5 \o <<HookStep("is_xml_tag_in_commits")>> ELSE s5
        s7 == IF xf # None /\ is_xml_tag_in_commits(in.show)
              THEN s6 \o <<HookStep("print xml tag changed"),
                           HookStep("is_commit_msg_valid(xml)")>>
              ELSE s6
    IN  IF is_in_aosp(in.branches) THEN HookEnd(s1, Some(0), "")
        ELSE IF /\ rf # None
                /\ rf[1] = STRING_FILE
                /\ ~is_commit_msg_has_translation_bug_id(in.commit_msg)
             THEN HookEnd(s3, None, "KeyError")
        ELSE IF rf # None /\ ~is_commit_msg_valid(in.commit_msg, TRUE, FALSE)
             THEN HookEnd(s4 \o <<HookStep("print overlayable guidance")>>, Some(1), "")
        ELSE IF /\ xf # None
                /\ is_xml_tag_in_commits(in.show)
                /\ ~is_commit_msg_valid(in.commit_msg, FALSE, TRUE)
             THEN HookEnd(s7 \o <<HookStep("print cloud b&r guidance")>>, Some(1), "")
        ELSE HookEnd(s7, Some(0), "")

\* The lines a commit message is made of, and the messages: up to two
\* lines.
HookMessages ==
    LET HookLines ==
            {<<>>, <<"fix scan">>,
             <<"Updated-Overlayable", ": TRUE">>, <<" ", "UPDATED-OVERLAYABLE", " ">>,
             <<"see", "Updated-Overlayable">>,
             <<"Reviewed-Cloud-B&R", ": TRUE">>, <<"Bug: 294871353">>}
    IN  {<<>>} \cup {<<l>> : l \in HookLines}
               \cup {<<l, m>> : l \in HookLines, m \in HookLines}
\* The files of a commit, and the lists of changed files: up to two.
HookFileLists ==
    LET HookFiles ==
            {CONFIG_FILE, STRING_FILE, OVERLAY_FILE, <<LAYOUT_DIR, "dialog.xml">>,
             <<"service/ServiceWifiResources/res/drawable-hdpi/", "icon.png">>,
             XML_UTIL_FILE, CLOUD_BACKUP_PARSER_FILE}
    IN  {<<>>} \cup {<<f>> : f \in HookFiles}
               \cup {<<f, g>> : f \in HookFiles, g \in HookFiles}
\* What "git branch -vv" may print: nothing, the current branch tracking
\* aosp or not, another branch tracking aosp, no current branch.
HookBranches ==
    {<<>>,
     <<[star |-> TRUE, aosp |-> TRUE]>>,
     <<[star |-> TRUE, aosp |-> FALSE]>>,
     <<[star |-> FALSE, aosp |-> TRUE], [star |-> TRUE, aosp |-> FALSE]>>,
     <<[star |-> FALSE, aosp |-> FALSE]>>}
\* What the grep for XML_TAG may print.
HookShows == {<<>>, <<" ">>, <<" ", "+">>, <<"-">>}

\* The hook is started on a commit.
InitHook ==
    /\ pc = "main"
    /\ \E m \in HookMessages, f \in HookFileLists, b \in HookBranches, g \in HookShows :
          call = [site |-> "main", commit_msg |-> m, commit_files |-> f,
                  branches |-> b, show |-> g]
    /\ ids = [sub_to_pub |-> 1000, pub_to_sub |-> 5001]
    /\ cfg = TestConfig
    /\ locals = NoLocals
    /\ phase = [d \in Devices |-> "Idle"]
    /\ ops = <<>>
    /\ waits = <<>>
    /\ emitted = [d \in Devices |-> <<>>]
    /\ consumed = [d \in Devices |-> {}]
    /\ result = "running"
    /\ error = ""
    /\ ret = None

\* main() runs to its return or to the exception that ends it.
Main ==
    /\ pc = "main"
    /\ LET out == main(call) IN
          /\ ops' = out.log
          /\ ret' = out.code
          /\ error' = out.error
          /\ pc' = IF out.error = "" THEN "exited" ELSE "raised"
    /\ UNCHANGED <<cfg, ids, call, locals, phase, waits, emitted, consumed, result>>

SpecHook == InitHook /\ [][Main]_vars

\* ------------------------------------------------------------ properties

DiscoveryNames == {SERVICE_DISCOVERED, SERVICE_DISCOVERED_WITHIN_RANGE}
WaitsNamed(names) == {i \in 1..Len(waits) : waits[i].name \in names}

\* The wait i returned an event and every check the helper makes on it
\* passed: the host went on to a later wait, or no assertion or conversion
\* raised.
ChecksPassedAt(i) ==
    /\ waits[i].ok
    /\ i < Len(waits) \/ error \notin {"TestFailure", "ValueError", "UnicodeDecodeError"}

C2_DiscoveryReturnsPeer ==
    \A i \in WaitsNamed(DiscoveryNames) :
        (/\ waits[i].ok
         /\ waits[i].ev.data.serviceSpecificInfo = cfg.ssi
         /\ waits[i].ev.data.matchFilter = cfg.mf)
        => /\ locals.subscriber_peer = Some(waits[i].ev.data.peerId)
           /\ pc = "send_msg" \/ Issued(subscriber, "wifiAwareSendMessage")

\* Every check of the exchange passed: the helper returned, or it got as
\* far as its return statement.
ExchangePassed == pc = "returned" \/ error = "AttributeError"

\* The host got past the assertions on the send result.
PastSendResult == pc = "wait_msg_received" \/ WaitsNamed({MESSAGE_RECEIVED}) # {}

\* C3: _send_msg_and_check_received gets past its checks only if the send
\* result has the success callback and echoes the identifier sent, and the
\* received bytes decode to the message sent.
C3_ExchangeChecksEchoAndContent ==
    /\ PastSendResult =>
          \E i \in WaitsNamed({MESSAGE_SEND_RESULT}) :
              /\ waits[i].ok
              /\ waits[i].dev = call.sender
              /\ waits[i].ev.data.callbackName = MESSAGE_SEND_SUCCEEDED
              /\ waits[i].ev.data.messageId = call.send_message_id
    /\ ExchangePassed =>
          /\ PastSendResult
          /\ \E i \in WaitsNamed({MESSAGE_RECEIVED}) :
                /\ waits[i].ok
                /\ waits[i].dev = call.receiver
                /\ Utf8Valid(waits[i].ev.data.receivedMessage)
                /\ Utf8Decode(waits[i].ev.data.receivedMessage) = call.send_message

\* A message that is not ASCII passed every check.
C3_Witness ==
    /\ ExchangePassed
    /\ \E i \in WaitsNamed({MESSAGE_RECEIVED}) :
          waits[i].ok /\ waits[i].ev.data.receivedMessage = <<195, 169>>

\* The two calls test_create_wifi_aware_network makes.
IsSubToPub ==
    /\ call.sender = subscriber
    /\ call.send_message = MSG_SUB_TO_PUB
    /\ call.send_message_id = ids.sub_to_pub
IsPubToSub ==
    /\ call.sender = publisher
    /\ call.send_message = MSG_PUB_TO_SUB
    /\ call.send_message_id = ids.pub_to_sub

\* The exchange from sender with identifier own and message msg took the
\* send result from the sender and the message from the other device, and
\* neither carried the other direction's identifier or message.
OwnDirectionOnly(sender, own, other, msg, otherMsg) ==
    /\ \A i \in WaitsNamed({MESSAGE_SEND_RESULT}) :
          /\ waits[i].dev = sender
          /\ waits[i].ev.data.messageId = own
          /\ waits[i].ev.data.messageId # other
    /\ \A i \in WaitsNamed({MESSAGE_RECEIVED}) :
          /\ waits[i].dev = Other(sender)
          /\ Utf8Decode(waits[i].ev.data.receivedMessage) = msg
          /\ Utf8Decode(waits[i].ev.data.receivedMessage) # otherMsg

\* C4: with the test's identifiers and messages, an exchange passes only on
\* its own direction's identifier and message, never on those of the other
\* direction.
C4_NoCrossDirection ==
    ExchangePassed =>
        /\ IsSubToPub => OwnDirectionOnly(subscriber, ids.sub_to_pub, ids.pub_to_sub,
                                          MSG_SUB_TO_PUB, MSG_PUB_TO_SUB)
        /\ IsPubToSub => OwnDirectionOnly(publisher, ids.pub_to_sub, ids.sub_to_pub,
                                          MSG_PUB_TO_SUB, MSG_SUB_TO_PUB)

\* The reverse exchange passed every check.
C4_Witness == ExchangePassed /\ IsPubToSub

\* C5: when the send result and the received message pass the assertions,
\* _send_msg_and_check_received returns the peer handle of the
\* message-received event.
C5_ExchangeReturnsReceiptPeer ==
    \A i \in WaitsNamed({MESSAGE_RECEIVED}) :
        (/\ waits[i].ok
         /\ Utf8Valid(waits[i].ev.data.receivedMessage)
         /\ Utf8Decode(waits[i].ev.data.receivedMessage) = call.send_message)
        => /\ pc = "returned"
           /\ ret = Some(waits[i].ev.data.peerId)

\* C6: a network callback named onUnavailable, or anything but
\* onCapabilitiesChanged, fails the test, with no further wait and no
\* further request.
C6_OtherCallbacksFail ==
    \A i \in WaitsNamed({NETWORK_CALLBACK}) :
        (waits[i].ok /\ waits[i].ev.data.callbackName # ON_CAPABILITIES_CHANGED)
        => /\ result = "failed"
           /\ error = "TestFailure"
           /\ pc = "end"
           /\ Len(waits) = i
           /\ CountOps(waits[i].dev, "connectivityRequestNetwork") = 1
           /\ CountOps(waits[i].dev, "wifiAwareCreateNetworkSpecifier") = 1

\* An onUnavailable callback failed the test.
C6_Witness ==
    \E i \in WaitsNamed({NETWORK_CALLBACK}) :
        /\ waits[i].ok
        /\ waits[i].ev.data.callbackName = ON_UNAVAILABLE
        /\ result = "failed"

\* C7: an onCapabilitiesChanged callback passes exactly when the network
\* and the capabilities are present and the transport info class is
\* WifiAwareNetworkInfo; otherwise the test fails.
C7_CapabilitiesChangedIff ==
    \A i \in WaitsNamed({NETWORK_CALLBACK}) :
        (waits[i].ok /\ waits[i].ev.data.callbackName = ON_CAPABILITIES_CHANGED)
        => LET data == waits[i].ev.data
               good == /\ data.network # None
                       /\ data.networkCapabilities # None
                       /\ data.transportInfoClassName = AWARE_NETWORK_INFO_CLASS_NAME
           IN  /\ good => (pc = "returned" /\ result = "running" /\ error = "")
               /\ ~good => (pc = "end" /\ result = "failed" /\ error = "TestFailure")

\* An onCapabilitiesChanged callback passed.
C7_Witness ==
    /\ pc = "returned"
    /\ \E i \in WaitsNamed({NETWORK_CALLBACK}) :
          waits[i].ok /\ waits[i].ev.data.callbackName = ON_CAPABILITIES_CHANGED

StartedCallback(d) == IF d = publisher THEN PUBLISH_STARTED ELSE SUBSCRIBE_STARTED

\* C8: a device is SessionActive only after a discoveryResult event with
\* the started callback of its role and a true session-initialized flag;
\* any other discoveryResult event fails the test, and publish and
\* subscribe are issued at most once.
C8_SessionActiveOnlyOnStarted ==
    /\ \A d \in Devices :
          phase[d] = "SessionActive" =>
              \E i \in WaitsNamed({DISCOVER_RESULT}) :
                  /\ waits[i].ok
                  /\ waits[i].dev = d
                  /\ waits[i].ev.data.callbackName = StartedCallback(d)
                  /\ waits[i].ev.data.isSessionInitialized
    /\ \A i \in WaitsNamed({DISCOVER_RESULT}) :
          (/\ waits[i].ok
           /\ ~(/\ waits[i].ev.data.callbackName = StartedCallback(waits[i].dev)
                /\ waits[i].ev.data.isSessionInitialized))
          => /\ result = "failed"
             /\ error = "TestFailure"
             /\ phase[waits[i].dev] = "Failed"
             /\ Len(waits) = i
    /\ \A d \in Devices :
          CountOps(d, "wifiAwarePublish") + CountOps(d, "wifiAwareSubscribe") <= 1

\* Both devices are SessionActive.
C8_Witness == \A d \in Devices : phase[d] = "SessionActive"

AttachTimedOut(d) ==
    \E i \in 1..Len(waits) :
        waits[i].dev = d /\ waits[i].h = Handle(d, "attach") /\ ~waits[i].ok

\* C9: a device that answered the attach with onAttachFailed, or whose
\* attach wait timed out, is never Attached; once its wait is over the test
\* has failed, and nothing is published or subscribed on either device.
C9_AttachFailureIsTerminal ==
    \A d \in Devices :
        (CountEmitted(d, {ATTACH_FAILED}) > 0 \/ AttachTimedOut(d))
        => /\ phase[d] \in {"Attaching", "Failed"}
           /\ pc # WaitAttachPc(d) => (result = "failed" /\ pc \in {"end", "done"})
           /\ \A e \in Devices :
                 ~Issued(e, "wifiAwarePublish") /\ ~Issued(e, "wifiAwareSubscribe")

\* The subscriber's attach failed after the publisher's succeeded.
C9_Witness ==
    /\ CountEmitted(subscriber, {ATTACH_FAILED}) > 0
    /\ phase[publisher] = "Attached"
    /\ result = "failed"

ReceivedPassedOn(d) ==
    \E i \in WaitsNamed({MESSAGE_RECEIVED}) : waits[i].dev = d /\ ChecksPassedAt(i)

\* C10: the discovery wait starts only with both devices SessionActive, the
\* first send only after the discovery event passed its checks, the reverse
\* send only after the first exchange passed, and a network request only
\* after both exchanges passed.
C10_StagesAreBarriers ==
    /\ (pc = "wait_discovery" \/ WaitsNamed(DiscoveryNames) # {})
          => \A d \in Devices : phase[d] = "SessionActive"
    /\ Issued(subscriber, "wifiAwareSendMessage")
          => /\ \E i \in WaitsNamed(DiscoveryNames) : ChecksPassedAt(i)
             /\ locals.subscriber_peer # None
    /\ Issued(publisher, "wifiAwareSendMessage")
          => ReceivedPassedOn(publisher) /\ locals.publisher_peer # None
    /\ \A d \in Devices :
          (Issued(d, "wifiAwareCreateNetworkSpecifier")
              \/ Issued(d, "connectivityRequestNetwork"))
          => ReceivedPassedOn(publisher) /\ ReceivedPassedOn(subscriber)

\* The discovery wait returned an event.
C10_Witness == \E i \in WaitsNamed(DiscoveryNames) : waits[i].ok

TimedOut == \E i \in 1..Len(waits) : ~waits[i].ok

\* The operations of the protocol, as opposed to queries and cleanup.
ProtocolOpNames ==
    {"wifiAwareAttach", "wifiAwarePublish", "wifiAwareSubscribe", "wifiAwareSendMessage",
     "wifiAwareCreateNetworkSpecifier", "connectivityRequestNetwork"}
IsProtocolOp(o) == o.op \in ProtocolOpNames
ProtocolOps == SelectSeq(ops, IsProtocolOp)

C11_TimeoutsFixedAndFinal ==
    /\ \A i \in 1..Len(waits) : waits[i].timeout = WAIT_WIFI_STATE_TIME_OUT
    /\ \A i \in 1..Len(waits) :
          ~waits[i].ok => /\ i = Len(waits)
                          /\ result = "failed"
                          /\ error = "TimeoutError"
                          /\ pc \in {"end", "done"}
    /\ \A d \in Devices, op \in ProtocolOpNames : CountOps(d, op) <= 1

\* C11: every wait is given the one timeout of 30 seconds; a wait that
\* timed out is the last wait of the test case and fails it; after it no
\* operation of the protocol is issued, and each operation of the protocol
\* is issued at most once per device.
C11_TimeoutIsTerminal ==
    /\ []C11_TimeoutsFixedAndFinal
    /\ [][TimedOut => ProtocolOps' = ProtocolOps]_vars

\* A wait timed out and the test case, teardown included, is over.
C11_Witness == TimedOut /\ pc = "done"

\* C12: after every test case, at whatever stage and on whichever device it
\* failed, wifiAwareCloseAllWifiAwareSession is invoked on the publisher
\* and on the subscriber.
C12_TeardownOnBoth ==
    <>[](/\ pc = "done"
         /\ \A d \in Devices : CountOps(d, "wifiAwareCloseAllWifiAwareSession") = 1)

\* The publisher's session start failed and both devices were torn down.
C12_Witness ==
    /\ phase[publisher] = "Failed"
    /\ phase[subscriber] = "Attached"
    /\ \A d \in Devices : Issued(d, "wifiAwareCloseAllWifiAwareSession")

\* The request op at index i of the log is followed by an unregister of
\* its handler on the same device.
Unregistered(i) ==
    \E j \in (i + 1)..Len(ops) :
        /\ ops[j].dev = ops[i].dev
        /\ ops[j].op = "connectivityUnregisterNetwork"
        /\ ops[j].args = <<Handle(ops[i].dev, "network")>>

C14_UnavailableAbortsAll ==
    (\E d \in Devices : phase[d] = "Unavailable") =>
        /\ pc \in {"setup_class", "aborted"}
        /\ \A e \in Devices : ~Issued(e, "wifiAwareAttach")
        /\ waits = <<>>
        /\ result # "passed"

\* The subscriber is not available, the publisher's setup succeeded, and
\* setup_class is over.
C14_Witness ==
    /\ pc = "aborted"
    /\ phase[publisher] = "Idle"
    /\ phase[subscriber] = "Unavailable"

InProgress == {"Attaching", "SessionStarting"}

FirstEmitted(d, name) ==
    emitted[d][Oldest({i \in 1..Len(emitted[d]) : emitted[d][i].name = name})]

\* Both devices emitted what the exchange expects: the sender the success
\* result with the identifier sent, the receiver the message sent.
ExpectedEventsEmitted ==
    /\ CountEmitted(call.sender, {MESSAGE_SEND_RESULT}) > 0
    /\ CountEmitted(call.receiver, {MESSAGE_RECEIVED}) > 0
    /\ LET res == FirstEmitted(call.sender, MESSAGE_SEND_RESULT).data
           msg == FirstEmitted(call.receiver, MESSAGE_RECEIVED).data
       IN  /\ res.callbackName = MESSAGE_SEND_SUCCEEDED
           /\ res.messageId = call.send_message_id
           /\ Utf8Valid(msg.receivedMessage)
           /\ Utf8Decode(msg.receivedMessage) = call.send_message

RequiredKeys(site) ==
    {"service_name", "service_specific_info", "terminate_notification_enabled"}
    \cup (IF site = "PublishConfig.to_dict" THEN {"publish_type", "ranging_enabled"}
          ELSE {"subscribe_type"})

\* C17: the mapping to_dict returns has the key of match_filter, of
\* pairing_config and, for a SubscribeConfig, of max_distance_mm exactly
\* when the field is not None, and the value under such a key is the
\* field's value converted, never null; there are no other keys than these
\* and the required ones.
C17_OptionalKeysIffSet ==
    (pc = "returned" /\ call.site \in {"PublishConfig.to_dict", "SubscribeConfig.to_dict"}) =>
        LET c == call.config
            r == ret[1]
            sub == call.site = "SubscribeConfig.to_dict"
        IN  /\ ("match_filter" \in DOMAIN r) <=> (c.match_filter # None)
            /\ ("pairing_config" \in DOMAIN r) <=> (c.pairing_config # None)
            /\ ("max_distance_mm" \in DOMAIN r) <=> (sub /\ c.max_distance_mm # None)
            /\ DOMAIN r \subseteq
                  RequiredKeys(call.site) \cup {"match_filter", "pairing_config", "max_distance_mm"}
            /\ RequiredKeys(call.site) \subseteq DOMAIN r
            /\ "match_filter" \in DOMAIN r =>
                  /\ Len(r.match_filter) = Len(c.match_filter[1])
                  /\ \A i \in 1..Len(r.match_filter) :
                        r.match_filter[i] = Utf8Decode(c.match_filter[1][i])
            /\ "pairing_config" \in DOMAIN r =>
                  r.pairing_config.bootstrapping_methods = OPPORTUNISTIC
            /\ "max_distance_mm" \in DOMAIN r => r.max_distance_mm = c.max_distance_mm[1]

\* A SubscribeConfig with no match filter, no pairing config and a maximum
\* distance of zero was converted.
C17_Witness ==
    /\ pc = "returned"
    /\ call.site = "SubscribeConfig.to_dict"
    /\ call.config.match_filter = None
    /\ call.config.pairing_config = None
    /\ call.config.max_distance_mm = Some(0)
    /\ DOMAIN ret[1] = RequiredKeys(call.site) \cup {"max_distance_mm"}

\* Some line of the message starts, trimmed and in lower case, with prefix.
HasLine(commit_msg, prefix) ==
    \E i \in 1..Len(commit_msg) : StartsWith(Normalized(commit_msg[i]), prefix)
HasFile(commit_files, Is(_)) == \E i \in 1..Len(commit_files) : Is(commit_files[i])
HookRan == pc \in {"exited", "raised"} /\ call.site = "main"

\* C18: off AOSP, with a tracked resource file among the changed files and
\* no line of the commit message starting with Updated-Overlayable, main()
\* returns 1.
C18_OverlayableLineRequired ==
    (/\ HookRan
     /\ ~is_in_aosp(call.branches)
     /\ HasFile(call.commit_files, IsResourceFile)
     /\ ~HasLine(call.commit_msg, "updated-overlayable"))
    => ret = Some(1)

\* C19: off AOSP, with an XML-related file among the changed files, an
\* XML_TAG line changed by the commit and no line of the commit message
\* starting with Reviewed-Cloud-B&R (an empty message included), main()
\* returns 1.
C19_CloudBackupLineRequired ==
    (/\ HookRan
     /\ ~is_in_aosp(call.branches)
     /\ HasFile(call.commit_files, IsXmlRelatedFile)
     /\ is_xml_tag_in_commits(call.show)
     /\ ~HasLine(call.commit_msg, "reviewed-cloud-b&r"))
    => ret = Some(1)

\* Argument k of the operation is the handle of that kind of the device
\* the operation is issued on.
OwnHandle(o, k, kind) == o.args[k] = Handle(o.dev, kind)
\* The peer handle the test holds for a device: the subscriber's from its
\* discovery event, the publisher's from its message-received event.
PeerOf(d) == IF d = subscriber THEN locals.subscriber_peer ELSE locals.publisher_peer
HandlesOwn(o) ==
    CASE o.op \in {"wifiAwarePublish", "wifiAwareSubscribe", "wifiAwareDetach"} ->
             OwnHandle(o, 1, "attach")
      [] o.op \in {"wifiAwareSendMessage", "wifiAwareCreateNetworkSpecifier"} ->
             OwnHandle(o, 1, "session") /\ Some(o.args[2]) = PeerOf(o.dev)
      [] o.op = "wifiAwareCloseDiscoverSession" -> OwnHandle(o, 1, "session")
      [] o.op = "connectivityUnregisterNetwork" -> OwnHandle(o, 1, "network")
      [] o.op = "connectivityRequestNetwork" ->
             /\ PeerOf(o.dev) # None
             /\ o.args[1].network_specifier
                    = Specifier(o.dev, Handle(o.dev, "session"), PeerOf(o.dev)[1])
      [] OTHER -> TRUE

\* C20: every operation issued on a device is given only handles of that
\* device: the attach handle, the session handle, the network handle of the
\* device, and the peer handle the test obtained from that device's event.
C20_HandlesAreDeviceLocal == \A i \in 1..Len(ops) : HandlesOwn(ops[i])
C20_Witness ==
    /\ \E i \in 1..Len(ops) :
          ops[i] = Op(publisher, "wifiAwarePublish", ops[i].args)
          /\ ops[i].args[1] = Handle(publisher, "attach")
    /\ \E i \in 1..Len(ops) :
          ops[i] = Op(subscriber, "wifiAwareSubscribe", ops[i].args)
          /\ ops[i].args[1] = Handle(subscriber, "attach")

\* The send-result wait returned an event with the failure callback or with
\* an identifier that is not the one sent.
SendResultRejected ==
    \E i \in WaitsNamed({MESSAGE_SEND_RESULT}) :
        /\ waits[i].ok
        /\ \/ waits[i].ev.data.callbackName = MESSAGE_SEND_FAILED
           \/ waits[i].ev.data.messageId # call.send_message_id

\* C21: once the send result is the failure callback or echoes another
\* identifier, the exchange has failed: the message was sent once, and no
\* wait for the received message was made.
C21_RejectedSendResultFails ==
    SendResultRejected =>
        /\ pc = "end"
        /\ result = "failed"
        /\ error = "TestFailure"
        /\ CountOps(call.sender, "wifiAwareSendMessage") = 1
        /\ WaitsNamed({MESSAGE_RECEIVED}) = {}
\* The receiver had received the message when the send result was rejected.
C21_Witness ==
    /\ SendResultRejected
    /\ CountEmitted(call.receiver, {MESSAGE_RECEIVED}) = 1
    /\ \E i \in WaitsNamed({MESSAGE_SEND_RESULT}) :
          waits[i].ev.data.callbackName = MESSAGE_SEND_SUCCEEDED

\* The subscriber's session emitted an event of that name.
SubscriberEmitted(name) ==
    \E j \in 1..Len(emitted[subscriber]) : emitted[subscriber][j].name = name

\* C22: the discovery wait is for onServiceDiscoveredWithinRange exactly
\* when ranging was requested and for onServiceDiscovered otherwise; it
\* returns only an event of that name, and when no event of that name
\* arrived it times out and the test fails, whatever else arrived.
C22_DiscoveryNameByRanging ==
    \A i \in WaitsNamed(DiscoveryNames) :
        /\ waits[i].name = SERVICE_DISCOVERED_WITHIN_RANGE <=> cfg.ranging
        /\ waits[i].name = SERVICE_DISCOVERED <=> ~cfg.ranging
        /\ waits[i].ok => waits[i].ev.name = waits[i].name
        /\ ~SubscriberEmitted(waits[i].name) =>
              /\ ~waits[i].ok
              /\ pc \in {"end", "done"}
              /\ result = "failed"
              /\ error = "TimeoutError"
\* Ranging was requested, onServiceDiscovered arrived, and the wait timed
\* out.
C22_Witness ==
    /\ cfg.ranging
    /\ SubscriberEmitted(SERVICE_DISCOVERED)
    /\ \E i \in WaitsNamed(DiscoveryNames) : ~waits[i].ok
    /\ error = "TimeoutError"

\* The positions of the network requests in the log.
RequestsAt == {i \in 1..Len(ops) : ops[i].op = "connectivityRequestNetwork"}

\* C23: every network request has exactly the keys transport_type and
\* network_specifier, the transport type is TRANSPORT_WIFI_AWARE, and the
\* specifier is the token wifiAwareCreateNetworkSpecifier returned just
\* before on the same device for the session and peer _request_network
\* was given.
C23_RequestCarriesAwareSpecifier ==
    \A i \in RequestsAt :
        /\ i > 1
        /\ ops[i - 1] = Op(ops[i].dev, "wifiAwareCreateNetworkSpecifier",
                           <<call.discovery_session, call.peer>>)
        /\ ops[i].dev = call.ad
        /\ DOMAIN ops[i].args[1] = {"transport_type", "network_specifier"}
        /\ ops[i].args[1].transport_type = TRANSPORT_WIFI_AWARE
        /\ ops[i].args[1].network_specifier
               = Specifier(ops[i].dev, ops[i - 1].args[1], ops[i - 1].args[2])
\* A request was sent to the subscriber for the second peer handle.
C23_Witness ==
    \E i \in RequestsAt :
        /\ ops[i].dev = subscriber
        /\ ops[i].args[1].network_specifier
               = Specifier(subscriber, Handle(subscriber, "session"), 2)

\* C24: AwarePairingConfig.to_dict returns the three flags and, as
\* bootstrapping_methods, the integer that is the bitwise OR of the members
\* selected, for every combination of members; the default config gives
\* three false flags and 1.
C24_BootstrappingBitmask ==
    (pc # "to_dict" /\ call.site = "AwarePairingConfig.to_dict") =>
        /\ ret # None
        /\ ret[1].pairing_cache_enabled = call.config.pairing_cache_enabled
        /\ ret[1].pairing_setup_enabled = call.config.pairing_setup_enabled
        /\ ret[1].pairing_verification_enabled = call.config.pairing_verification_enabled
        /\ ret[1].bootstrapping_methods = call.config.bootstrapping_methods.value
        /\ call.config = DefaultPairingConfig =>
              ret[1] = [pairing_cache_enabled |-> FALSE, pairing_setup_enabled |-> FALSE,
                        pairing_verification_enabled |-> FALSE,
                        bootstrapping_methods |-> 1]

\* C25: the mapping of a publish config has the key publish_type, with the
\* code of its publish type, and neither subscribe_type nor
\* max_distance_mm; the mapping of a subscribe config has subscribe_type,
\* with the code of its subscribe type, and neither publish_type nor
\* ranging_enabled.  Exactly one of the two kind keys is present.
C25_OneKindPerConfig ==
    (pc = "returned" /\ call.site \in {"PublishConfig.to_dict", "SubscribeConfig.to_dict"}) =>
        LET keys == DOMAIN ret[1] IN
        /\ call.site = "PublishConfig.to_dict" =>
              /\ "publish_type" \in keys
              /\ ret[1].publish_type = call.config.publish_type
              /\ keys \cap {"subscribe_type", "max_distance_mm"} = {}
        /\ call.site = "SubscribeConfig.to_dict" =>
              /\ "subscribe_type" \in keys
              /\ ret[1].subscribe_type = call.config.subscribe_type
              /\ keys \cap {"publish_type", "ranging_enabled"} = {}
        /\ Cardinality(keys \cap {"publish_type", "subscribe_type"}) = 1
\* A subscribe config with a maximum distance and a pairing config was
\* converted.
C25_Witness ==
    /\ pc = "returned"
    /\ call.site = "SubscribeConfig.to_dict"
    /\ call.config.max_distance_mm = Some(ONE_METRE_MM)
    /\ call.config.pairing_config # None
    /\ "max_distance_mm" \in DOMAIN ret[1]

\* The number of waits made for events of these names.
WaitCount(names) == Cardinality(WaitsNamed(names))
\* The waits on device d that returned an event.
ReturnedOn(d) == {i \in 1..Len(waits) : waits[i].ok /\ waits[i].dev = d}

\* At most eleven waits were made, no stage made more than its share, and
\* each wait that returned took an event of its device that no other wait
\* returned.
WaitBudgetKept ==
    /\ Len(waits) <= 11
    /\ WaitCount({ATTACHED, ATTACH_FAILED}) <= 2
    /\ WaitCount({DISCOVER_RESULT}) <= 2
    /\ WaitCount(DiscoveryNames) <= 1
    /\ WaitCount({MESSAGE_SEND_RESULT}) <= 2
    /\ WaitCount({MESSAGE_RECEIVED}) <= 2
    /\ WaitCount({NETWORK_CALLBACK}) <= 2
    /\ \A d \in Devices :
          /\ consumed[d] \subseteq 1..Len(emitted[d])
          /\ Cardinality(ReturnedOn(d)) = Cardinality(consumed[d])

\* C26: every run of the test case makes at most eleven event waits, none
\* of which returns an event an earlier wait returned, and ends, passed or
\* failed, with its teardown done.
C26_TerminatesWithinWaits ==
    /\ []WaitBudgetKept
    /\ <>[](pc = "done" /\ result \in {"passed", "failed"})
\* A run that made the five waits up to discovery and was torn down.
C26_Witness ==
    /\ pc = "done"
    /\ Len(waits) = 5
    /\ WaitCount(DiscoveryNames) = 1
    /\ \A d \in Devices : Cardinality(ReturnedOn(d)) = Cardinality(consumed[d])
    /\ \A d \in Devices : Issued(d, "wifiAwareCloseAllWifiAwareSession")

\* The identifier a wifiAwareSendMessage operation was given.
SentId(o) == o.args[3]
SendsOn(d) == {i \in 1..Len(ops) : ops[i].dev = d /\ ops[i].op = "wifiAwareSendMessage"}

\* C27: the identifier of the subscriber's message is in 1000..5000, the
\* identifier of the publisher's message is in 5001..9999, the two differ,
\* and each device's send carries its own direction's identifier.
C27_DirectionIdsDiffer ==
    /\ ids.sub_to_pub \in 1000..5000
    /\ ids.pub_to_sub \in 5001..9999
    /\ ids.sub_to_pub # ids.pub_to_sub
    /\ \A i \in SendsOn(subscriber) : SentId(ops[i]) = ids.sub_to_pub
    /\ \A i \in SendsOn(publisher) : SentId(ops[i]) = ids.pub_to_sub
\* The two closest draws, and the publisher's send with its identifier.
C27_Witness ==
    /\ ids.sub_to_pub = 5000
    /\ ids.pub_to_sub = 5001
    /\ \E i \in SendsOn(publisher) : SentId(ops[i]) = 5001

\* The list of changed files has values/strings.xml at some position.
HasStringFile == \E i \in 1..Len(call.commit_files) : call.commit_files[i] = STRING_FILE

\* C28: off AOSP, with values/strings.xml anywhere among the changed files
\* and no line of the commit message starting with Bug: 294871353, main()
\* returns 1.
C28_TranslationBugRequired ==
    (/\ HookRan
     /\ ~is_in_aosp(call.branches)
     /\ HasStringFile
     /\ ~HasLine(call.commit_msg, "bug: 294871353"))
    => (pc = "exited" /\ ret = Some(1))

\* The checks and prints main() made, by name.
HookLog == {ops[i].op : i \in 1..Len(ops)}

\* C29: when the current branch tracks aosp/, or git reports no current
\* branch, main() returns 0 whatever the commit message and the changed
\* files are, and makes no check on them.
C29_AospSkipsChecks ==
    (/\ HookRan
     /\ \/ \E i \in 1..Len(call.branches) :
              /\ call.branches[i].star
              /\ call.branches[i].aosp
              /\ \A j \in 1..(i - 1) : ~call.branches[j].star
        \/ \A i \in 1..Len(call.branches) : ~call.branches[i].star)
    => /\ pc = "exited"
       /\ ret = Some(0)
       /\ HookLog = {"is_in_aosp"}
\* On a branch tracking aosp/, a commit that changes strings.xml and
\* XmlUtil.java with an empty message was let through.
C29_Witness ==
    /\ pc = "exited"
    /\ ret = Some(0)
    /\ call.branches = <<[star |-> TRUE, aosp |-> TRUE]>>
    /\ call.commit_files = <<STRING_FILE, XML_UTIL_FILE>>
    /\ call.commit_msg = <<>>
    /\ call.show = <<"-">>

\* The positions in the log of an operation on a device.
OpsAt(d, op) == {i \in 1..Len(ops) : ops[i].dev = d /\ ops[i].op = op}
ReleaseOpNames ==
    {"connectivityUnregisterNetwork", "wifiAwareCloseDiscoverSession", "wifiAwareDetach"}
Releasing == \E i \in 1..Len(ops) : ops[i].op \in ReleaseOpNames
\* The network wait on the device returned onCapabilitiesChanged.
NetworkWaitPassed(d) ==
    \E i \in WaitsNamed({NETWORK_CALLBACK}) :
        /\ waits[i].ok
        /\ waits[i].dev = d
        /\ waits[i].ev.data.callbackName = ON_CAPABILITIES_CHANGED

\* C30: release operations are issued only when both network waits have
\* passed; then each device's network request is unregistered before its
\* discovery session is closed, and the session is closed before the attach
\* session is detached, each once; a passed test has released all three on
\* both devices.
C30_ReleaseInDependencyOrder ==
    /\ Releasing => \A d \in Devices : NetworkWaitPassed(d)
    /\ result = "passed" => Releasing
    /\ Releasing =>
          \A d \in Devices :
              /\ \A name \in ReleaseOpNames : Cardinality(OpsAt(d, name)) = 1
              /\ \A i \in OpsAt(d, "connectivityUnregisterNetwork"),
                    j \in OpsAt(d, "wifiAwareCloseDiscoverSession"),
                    k \in OpsAt(d, "wifiAwareDetach") :
                     /\ i < j
                     /\ j < k
                     /\ \A r \in OpsAt(d, "connectivityRequestNetwork") : r < i
\* The test passed and everything was released.
C30_Witness ==
    /\ result = "passed"
    /\ pc = "end"
    /\ \A d \in Devices : OpsAt(d, "wifiAwareDetach") # {}
    /\ Len(waits) = 2

====
